---- MODULE Spec2Model ----
(***************************************************************************)
(* FlowForge control plane: HTTP security chain (rate limiter, bearer      *)
(* auth), idempotent kill/restart mutations, the worker lifecycle manager  *)
(* with its restart budget, and the process-wide ProcessState.             *)
(*                                                                         *)
(* Time is a discrete clock `now`; one tick is half a minute.              *)
(***************************************************************************)
EXTENDS Integers, Sequences, FiniteSets, TLC

VARIABLES
    now,                \* wall clock (time.Now), in ticks
    apiKey,             \* FLOWFORGE_API_KEY: "" (unset) or "secret"
    limiter,            \* apiLimiter (*rateLimiter)
    idemRecords,        \* idempotency_records table: <<scope, key>> -> record
    idemSlots,          \* (scope, key) tuples held by an in-flight mutation
    workerControl,      \* lifecycle manager singleton
    currentState,       \* state.currentState
    lifecycleOverride,  \* state.lifecycleOverride
    auditLog,           \* audit events appended to the ledger
    req,                \* one record per client connection: the request and its position
    last,               \* the request answered most recently, with its response
    issued,             \* number of requests issued so far (feeds request ids)
    hist,               \* observation history used only by the properties
    supervisor,         \* a Supervisor with the process tree it started
    events,             \* the ledger's events table, oldest first; the id is the position
    baselineState,      \* decision_signal_baseline_state table: bucket key -> row
    guardrails,         \* signal-baseline guardrails read from the environment
    demo,               \* position of the demo run (cmd/demo.go)
    report,             \* what the latest ledger operation returned
    observed,           \* per bucket, what each evaluation saw: latest trace id and breach
    call,               \* a function under examination: its input and what it returned
    stateMem            \* memory behind ProcessState.Args: backing arrays, the slice held
                        \* by currentState, and the snapshots that readers hold

\* the components the HTTP control plane does not touch
ledger == <<events, baselineState, guardrails, demo, report, observed>>
functions == <<call, stateMem>>
components == <<supervisor, ledger, functions>>

vars == <<now, apiKey, limiter, idemRecords, idemSlots, workerControl,
          currentState, lifecycleOverride, auditLog, req, last, issued, hist, components>>

\* the variables of the HTTP control plane and the lifecycle manager
controlPlane == <<now, apiKey, limiter, idemRecords, idemSlots, workerControl,
                  currentState, lifecycleOverride, auditLog, req, last, issued, hist>>

----------------------------------------------------------------------------
(* Bounds of the model *)

MaxTime == 4
MaxKeyedTime == 1
MaxKeyedRequests == 3
MaxBudgetRequests == 3
MaxAuthRequests == 12
MaxMethodRequests == 2
MaxLimiterOps == 5
MaxLimiterTime == 4
MaxChainRequests == 3
MaxBruteTime == 2
MaxLifeRequests == 2
MaxLifeTime == 2
MaxStopCalls == 3

Conns == {1, 2}
IPs == {1, 2}

(* Program constants *)

Minute == 2
StatusOK == 200
StatusAccepted == 202
StatusUnauthorized == 401
StatusForbidden == 403
StatusMethodNotAllowed == 405
StatusConflict == 409
StatusTooManyRequests == 429
StatusInternalServerError == 500

----------------------------------------------------------------------------
(* Small helpers *)

Max(a, b) == IF a >= b THEN a ELSE b

Min(a, b) == IF a <= b THEN a ELSE b

EmptyMap == [x \in {} |-> 0]

MapPut(f, k, v) == [x \in (DOMAIN f) \cup {k} |-> IF x = k THEN v ELSE f[x]]

MapDrop(f, ks) == [x \in (DOMAIN f) \ ks |-> f[x]]

----------------------------------------------------------------------------
(* Problem documents (RFC 7807) *)

MsgRateLimit == "rate limit exceeded"
MsgAuthBlocked == "Too many failed auth attempts. Retry later."
MsgAuthRequired == "Authorization required"
MsgInvalidKey == "Invalid API key"
MsgNoKey == "Security Alert: You must set FLOWFORGE_API_KEY environment variable to perform mutations."
MsgMethod == "Method not allowed"
MsgIdemConflict == "idempotency key reuse with different request payload"
MsgBudget == "restart budget exceeded"
MsgWrongState == "lifecycle request rejected: wrong state"
MsgInternal == "failed to request lifecycle action"

\* strings.Contains(strings.ToLower(detail), needle) on the messages above
DetailContains(detail, needle) ==
    CASE needle = "idempotency"    -> detail = MsgIdemConflict
      [] needle = "restart budget" -> detail = MsgBudget
      [] needle = "auth attempt"   -> detail = MsgAuthBlocked
      [] OTHER                     -> FALSE

problemTypeURI_NoDetail(statusCode, detail) ==
    CASE statusCode = 400 -> "bad-request"
      [] statusCode = StatusUnauthorized -> "unauthorized"
      [] statusCode = StatusForbidden -> "forbidden"
      [] statusCode = 404 -> "not-found"
      [] statusCode = StatusMethodNotAllowed -> "method-not-allowed"
      [] statusCode = StatusConflict -> "conflict"
      [] statusCode = StatusTooManyRequests -> "rate-limited"
      [] statusCode = 503 -> "not-ready"
      [] statusCode = StatusInternalServerError -> "internal"
      [] OTHER -> "http-other"

problemTypeURI(statusCode, detail) ==
    CASE statusCode = 400 -> "bad-request"
      [] statusCode = StatusUnauthorized -> "unauthorized"
      [] statusCode = StatusForbidden -> "forbidden"
      [] statusCode = 404 -> "not-found"
      [] statusCode = StatusMethodNotAllowed -> "method-not-allowed"
      [] statusCode = StatusConflict ->
            IF DetailContains(detail, "idempotency") THEN "idempotency-conflict"
            ELSE "conflict"
      [] statusCode = StatusTooManyRequests ->
            IF DetailContains(detail, "restart budget") THEN "restart-budget-exceeded"
            ELSE IF DetailContains(detail, "auth attempt") THEN "auth-rate-limited"
            ELSE "rate-limited"
      [] statusCode = 503 -> "not-ready"
      [] statusCode = StatusInternalServerError -> "internal"
      [] OTHER -> "http-other"

\* A response body.  kind "problem" is a problem document, kind "decision" the
\* 202 payload of kill/restart, kind "empty" a body-less reply.
NoBody ==
    [kind |-> "empty", type |-> "", status |-> 0, detail |-> "", rid |-> 0,
     retry |-> 0, dstatus |-> "", pid |-> 0, lifecycle |-> "", command |-> ""]

problemPayload(rid, statusCode, detail, retryAfter) ==
    [NoBody EXCEPT !.kind = "problem",
                   !.type = problemTypeURI(statusCode, detail),
                   !.status = statusCode,
                   !.detail = detail,
                   !.rid = rid,
                   !.retry = retryAfter]

\* What the client receives: status line, Retry-After header (0 = absent), body.
Response(statusCode, retryAfterHeader, body) ==
    [status |-> statusCode, retryAfter |-> retryAfterHeader, body |-> body]

NoResponse == Response(0, 0, NoBody)

writeJSONErrorForRequest(rid, statusCode, msg) ==
    Response(statusCode, 0, problemPayload(rid, statusCode, msg, 0))

----------------------------------------------------------------------------
(* Rate limiter *)

newRateLimiterWithBounds(requestLimit, authFailLimit, blockDuration, maxEntries, staleTTL, pruneEvery) ==
    LET bd == IF blockDuration <= 0 THEN 10 * Minute ELSE blockDuration
    IN  [requestLimit  |-> IF requestLimit <= 0 THEN 120 ELSE requestLimit,
         authFailLimit |-> IF authFailLimit <= 0 THEN 10 ELSE authFailLimit,
         blockDuration |-> bd,
         maxEntries    |-> IF maxEntries <= 0 THEN 10000 ELSE maxEntries,
         staleTTL      |-> IF staleTTL <= 0 THEN Max(30 * Minute, bd * 3) ELSE staleTTL,
         pruneEvery    |-> IF pruneEvery = 0 THEN 256 ELSE pruneEvery,
         opCount       |-> 0,
         entries       |-> EmptyMap]

newRateLimiter(requestLimit, authFailLimit, blockDuration) ==
    newRateLimiterWithBounds(requestLimit, authFailLimit, blockDuration, 10000, 0, 256)

\* getEntry: the entry for ip (created when absent, lastSeen refreshed otherwise)
getEntry(r, ip, t) ==
    IF ip \in DOMAIN r.entries
    THEN [r EXCEPT !.entries[ip].lastSeen = t]
    ELSE [r EXCEPT !.entries = MapPut(r.entries, ip,
            [windowStart |-> t, requestCount |-> 0, authFailures |-> 0,
             blockedUntil |-> 0, lastSeen |-> t])]

\* shouldPruneLocked, split into its side effect and its result
bumpOpCount(r) == [r EXCEPT !.opCount = r.opCount + 1]

shouldPrune_PeriodicOnly(r) == r.opCount % r.pruneEvery = 0

shouldPrune(r) ==
    \/ Cardinality(DOMAIN r.entries) > r.maxEntries
    \/ r.opCount % r.pruneEvery = 0

\* eviction order of pruneLocked's sort: non-blocked first, then least
\* recently seen, then smaller ip
EvictBefore_BlockedFirst(r, t, a, b) ==
    LET ba == t < r.entries[a].blockedUntil
        bb == t < r.entries[b].blockedUntil
    IN  IF ba # bb THEN (ba /\ ~bb)
        ELSE IF r.entries[a].lastSeen = r.entries[b].lastSeen THEN a < b
        ELSE r.entries[a].lastSeen < r.entries[b].lastSeen

EvictBefore(r, t, a, b) ==
    LET ba == t < r.entries[a].blockedUntil
        bb == t < r.entries[b].blockedUntil
    IN  IF ba # bb THEN (~ba /\ bb)
        ELSE IF r.entries[a].lastSeen = r.entries[b].lastSeen THEN a < b
        ELSE r.entries[a].lastSeen < r.entries[b].lastSeen

pruneLocked_SweepsBlocked(r, t) ==
    IF DOMAIN r.entries = {} THEN r
    ELSE
      LET cutoff == t - r.staleTTL
          stale  == {ip \in DOMAIN r.entries : r.entries[ip].lastSeen < cutoff}
          r1     == [r EXCEPT !.entries = MapDrop(r.entries, stale)]
          over   == Cardinality(DOMAIN r1.entries) - r1.maxEntries
          rank(ip) == Cardinality({o \in DOMAIN r1.entries : EvictBefore(r1, t, o, ip)})
          evict  == {ip \in DOMAIN r1.entries : rank(ip) < over}
      IN  IF over <= 0 THEN r1
          ELSE [r1 EXCEPT !.entries = MapDrop(r1.entries, evict)]

pruneLocked(r, t) ==
    IF DOMAIN r.entries = {} THEN r
    ELSE
      LET cutoff == t - r.staleTTL
          stale  == {ip \in DOMAIN r.entries :
                        /\ r.entries[ip].lastSeen < cutoff
                        /\ ~(t < r.entries[ip].blockedUntil)}
          r1     == [r EXCEPT !.entries = MapDrop(r.entries, stale)]
          over   == Cardinality(DOMAIN r1.entries) - r1.maxEntries
          rank(ip) == Cardinality({o \in DOMAIN r1.entries : EvictBefore(r1, t, o, ip)})
          evict  == {ip \in DOMAIN r1.entries : rank(ip) < over}
      IN  IF over <= 0 THEN r1
          ELSE [r1 EXCEPT !.entries = MapDrop(r1.entries, evict)]

\* The common prologue of allow/addAuthFailure: getEntry, then the periodic
\* prune.  `e` is the entry pointer obtained before the prune; when the prune
\* evicts it, later writes through `e` no longer reach the map.
limiterEnter(r, ip, t) ==
    LET r1 == getEntry(r, ip, t)
        e  == r1.entries[ip]
        r2 == bumpOpCount(r1)
        r3 == IF shouldPrune(r2) THEN pruneLocked(r2, t) ELSE r2
    IN  [lim |-> r3, e |-> e]

storeEntry(r, ip, e) ==
    IF ip \in DOMAIN r.entries THEN [r EXCEPT !.entries[ip] = e] ELSE r

rollWindow(e, t) ==
    IF t - e.windowStart >= Minute
    THEN [e EXCEPT !.windowStart = t, !.requestCount = 0, !.authFailures = 0]
    ELSE e

\* allow: result and limiter afterwards
allow_OneOver(r, ip, t) ==
    LET in == limiterEnter(r, ip, t)
        e0 == in.e
    IN  IF t < e0.blockedUntil THEN [ok |-> FALSE, lim |-> in.lim]
        ELSE LET e1 == rollWindow(e0, t)
                 e2 == [e1 EXCEPT !.requestCount = e1.requestCount + 1]
             IN  [ok |-> e2.requestCount <= r.requestLimit + 1,
                  lim |-> storeEntry(in.lim, ip, e2)]

allow(r, ip, t) ==
    LET in == limiterEnter(r, ip, t)
        e0 == in.e
    IN  IF t < e0.blockedUntil THEN [ok |-> FALSE, lim |-> in.lim]
        ELSE LET e1 == rollWindow(e0, t)
                 e2 == [e1 EXCEPT !.requestCount = e1.requestCount + 1]
             IN  [ok |-> e2.requestCount <= r.requestLimit,
                  lim |-> storeEntry(in.lim, ip, e2)]

\* addAuthFailure: ok = TRUE when the ip is now blocked
addAuthFailure(r, ip, t) ==
    LET in == limiterEnter(r, ip, t)
        e1 == rollWindow(in.e, t)
        e2 == [e1 EXCEPT !.authFailures = e1.authFailures + 1]
    IN  IF e2.authFailures >= r.authFailLimit
        THEN [ok |-> TRUE,
              lim |-> storeEntry(in.lim, ip, [e2 EXCEPT !.blockedUntil = t + r.blockDuration])]
        ELSE [ok |-> FALSE, lim |-> storeEntry(in.lim, ip, e2)]

clearAuthFailures(r, ip, t) ==
    LET r1 == getEntry(r, ip, t)
        r2 == [r1 EXCEPT !.entries[ip].authFailures = 0]
        r3 == bumpOpCount(r2)
    IN  IF shouldPrune(r3) THEN pruneLocked(r3, t) ELSE r3

----------------------------------------------------------------------------
(* Bearer authentication *)

isUnsafeMethod_PostSafe(method) == method \notin {"GET", "HEAD", "OPTIONS", "TRACE", "POST"}

isUnsafeMethod(method) == method \notin {"GET", "HEAD", "OPTIONS", "TRACE"}

\* requireAuth: ok, the error response written when not ok, and the limiter
\* afterwards.  token is "none" (no Bearer header), "wrong" or "valid".
requireAuth_NoCompare(key, r, rid, method, token, ip, t) ==
    IF key = "" THEN
        IF isUnsafeMethod(method)
        THEN [ok |-> FALSE, lim |-> r, resp |-> writeJSONErrorForRequest(rid, StatusForbidden, MsgNoKey)]
        ELSE [ok |-> TRUE, lim |-> r, resp |-> NoResponse]
    ELSE IF token = "none" THEN
        LET f == addAuthFailure(r, ip, t)
        IN  [ok |-> FALSE, lim |-> f.lim,
             resp |-> IF f.ok THEN writeJSONErrorForRequest(rid, StatusTooManyRequests, MsgAuthBlocked)
                      ELSE writeJSONErrorForRequest(rid, StatusUnauthorized, MsgAuthRequired)]
    ELSE [ok |-> TRUE, lim |-> clearAuthFailures(r, ip, t), resp |-> NoResponse]

requireAuth(key, r, rid, method, token, ip, t) ==
    IF key = "" THEN
        IF isUnsafeMethod(method)
        THEN [ok |-> FALSE, lim |-> r, resp |-> writeJSONErrorForRequest(rid, StatusForbidden, MsgNoKey)]
        ELSE [ok |-> TRUE, lim |-> r, resp |-> NoResponse]
    ELSE IF token = "none" THEN
        LET f == addAuthFailure(r, ip, t)
        IN  [ok |-> FALSE, lim |-> f.lim,
             resp |-> IF f.ok THEN writeJSONErrorForRequest(rid, StatusTooManyRequests, MsgAuthBlocked)
                      ELSE writeJSONErrorForRequest(rid, StatusUnauthorized, MsgAuthRequired)]
    ELSE IF token # "valid" THEN
        LET f == addAuthFailure(r, ip, t)
        IN  [ok |-> FALSE, lim |-> f.lim,
             resp |-> IF f.ok THEN writeJSONErrorForRequest(rid, StatusTooManyRequests, MsgAuthBlocked)
                      ELSE writeJSONErrorForRequest(rid, StatusForbidden, MsgInvalidKey)]
    ELSE [ok |-> TRUE, lim |-> clearAuthFailures(r, ip, t), resp |-> NoResponse]

----------------------------------------------------------------------------
(* internal/state: the process-wide ProcessState *)

deriveLifecycle(status, pid) ==
    CASE status \in {"STARTING", "RUNNING", "STOPPING", "STOPPED", "FAILED"} -> status
      [] status \in {"WATCHDOG_ALERT", "WATCHDOG_WARN", "WATCHDOG_CRITICAL", "PROBING_DETECTED"} -> "RUNNING"
      [] status \in {"LOOP_DETECTED", "RESTART_TRIGGERED", "SAFETY_LIMIT_EXCEEDED",
                     "COMMAND_FAILURE", "USER_TERMINATED"} -> "STOPPED"
      [] OTHER -> IF pid > 0 THEN "RUNNING" ELSE "STOPPED"

UpdateState_IgnoresOverride(ov, status, command, pid) ==
    [Status    |-> status,
     Command   |-> command,
     PID       |-> pid,
     Lifecycle |-> deriveLifecycle(status, pid)]

\* UpdateState: replaces the whole ProcessState; a lifecycle override in effect wins
UpdateState(ov, status, command, pid) ==
    [Status    |-> status,
     Command   |-> command,
     PID       |-> pid,
     Lifecycle |-> IF ov # "" THEN ov ELSE deriveLifecycle(status, pid)]

UpdateLifecycle_OverrideWins(st, ov, lifecycle, status, pid) ==
    LET ov1 == IF ov # "" THEN ov
               ELSE IF lifecycle \in {"RUNNING", "STOPPED", ""} THEN "" ELSE lifecycle
        lc  == IF ov1 # "" THEN ov1
               ELSE IF lifecycle # "" THEN lifecycle ELSE st.Lifecycle
    IN  [state |-> [st EXCEPT !.Lifecycle = lc,
                              !.Status = IF status # "" THEN status ELSE st.Status,
                              !.PID = IF pid >= 0 THEN pid ELSE st.PID],
         override |-> ov1]

\* UpdateLifecycle: the new ProcessState and the new override.  pid < 0 keeps the PID.
UpdateLifecycle(st, ov, lifecycle, status, pid) ==
    LET ov1 == IF lifecycle \in {"RUNNING", "STOPPED", ""} THEN "" ELSE lifecycle
        lc  == IF lifecycle # "" THEN lifecycle
               ELSE IF ov1 # "" THEN ov1 ELSE st.Lifecycle
    IN  [state |-> [st EXCEPT !.Lifecycle = lc,
                              !.Status = IF status # "" THEN status ELSE st.Status,
                              !.PID = IF pid >= 0 THEN pid ELSE st.PID],
         override |-> ov1]

GetState(st) == st

----------------------------------------------------------------------------
(* Lifecycle manager: restart budget and request handling *)

RestartBudgetMax == 2
RestartBudgetWindow == 3
StopTimeout == 1

Decision(status, acceptedNew, wc, err, retryAfter) ==
    [status |-> status, acceptedNew |-> acceptedNew, pid |-> wc.pid,
     lifecycle |-> wc.phase, err |-> err, retryAfter |-> retryAfter]

NoDecision ==
    [status |-> "", acceptedNew |-> FALSE, pid |-> 0, lifecycle |-> "", err |-> "", retryAfter |-> 0]

\* accepted restarts still inside the sliding window at time t, oldest first
restartsInWindow(restarts, t) ==
    SelectSeq(restarts, LAMBDA a : t - a < RestartBudgetWindow)

restartBudgetExceeded_OffByOne(restarts, t) ==
    Len(restartsInWindow(restarts, t)) > RestartBudgetMax

restartBudgetExceeded(restarts, t) ==
    Len(restartsInWindow(restarts, t)) >= RestartBudgetMax

\* time left until the oldest accepted restart falls out of the window
restartRetryAfter(restarts, t) ==
    LET w == restartsInWindow(restarts, t)
    IN  IF w = << >> THEN 0 ELSE RestartBudgetWindow - (t - w[1])

\* RequestStop: the manager after the request, and the LifecycleDecision
requestLifecycleKill(wc, t) ==
    IF wc.operation = "kill"
    THEN [wc |-> wc, dec |-> Decision("IN_PROGRESS", FALSE, wc, "", 0)]
    ELSE IF wc.operation = "restart"
    THEN [wc |-> wc, dec |-> Decision("REJECTED", FALSE, wc, "wrong_state", 0)]
    ELSE IF wc.phase = "RUNNING"
    THEN LET w1 == [wc EXCEPT !.phase = "STOPPING", !.operation = "kill", !.stopStartedAt = t]
         IN  [wc |-> w1, dec |-> Decision("ACCEPTED", TRUE, w1, "", 0)]
    ELSE IF wc.phase = "STOPPED" /\ wc.lastDone = "kill"
    THEN [wc |-> wc, dec |-> Decision("REPLAYED", FALSE, wc, "", 0)]
    ELSE [wc |-> wc, dec |-> Decision("REJECTED", FALSE, wc, "wrong_state", 0)]

requestLifecycleRestart_NoDedup(wc, t) ==
    IF wc.operation = "kill"
    THEN [wc |-> wc, dec |-> Decision("REJECTED", FALSE, wc, "wrong_state", 0)]
    ELSE IF wc.phase \notin {"RUNNING", "STOPPED", "STOPPING", "STARTING"}
    THEN [wc |-> wc, dec |-> Decision("REJECTED", FALSE, wc, "wrong_state", 0)]
    ELSE IF restartBudgetExceeded(wc.restarts, t)
    THEN [wc |-> wc,
          dec |-> Decision("REJECTED", FALSE, wc, "budget", restartRetryAfter(wc.restarts, t))]
    ELSE LET w1 == [wc EXCEPT
                      !.restarts = Append(restartsInWindow(wc.restarts, t), t),
                      !.operation = "restart",
                      !.phase = IF wc.phase \in {"RUNNING", "STOPPING"} THEN "STOPPING" ELSE "STARTING",
                      !.pid = IF wc.phase \in {"RUNNING", "STOPPING"} THEN wc.pid ELSE wc.nextPid,
                      !.nextPid = IF wc.phase \in {"RUNNING", "STOPPING"} THEN wc.nextPid ELSE wc.nextPid + 1,
                      !.stopStartedAt = IF wc.phase = "RUNNING" THEN t ELSE wc.stopStartedAt]
         IN  [wc |-> w1, dec |-> Decision("ACCEPTED", TRUE, w1, "", 0)]

\* RequestRestart: the manager after the request, and the LifecycleDecision
requestLifecycleRestart(wc, t) ==
    IF wc.operation = "restart"
    THEN [wc |-> wc, dec |-> Decision("IN_PROGRESS", FALSE, wc, "", 0)]
    ELSE IF wc.operation = "kill"
    THEN [wc |-> wc, dec |-> Decision("REJECTED", FALSE, wc, "wrong_state", 0)]
    ELSE IF wc.phase \notin {"RUNNING", "STOPPED"}
    THEN [wc |-> wc, dec |-> Decision("REJECTED", FALSE, wc, "wrong_state", 0)]
    ELSE IF restartBudgetExceeded(wc.restarts, t)
    THEN [wc |-> wc,
          dec |-> Decision("REJECTED", FALSE, wc, "budget", restartRetryAfter(wc.restarts, t))]
    ELSE LET w1 == [wc EXCEPT
                      !.restarts = Append(restartsInWindow(wc.restarts, t), t),
                      !.operation = "restart",
                      !.phase = IF wc.phase = "RUNNING" THEN "STOPPING" ELSE "STARTING",
                      !.pid = IF wc.phase = "RUNNING" THEN wc.pid ELSE wc.nextPid,
                      !.nextPid = IF wc.phase = "RUNNING" THEN wc.nextPid ELSE wc.nextPid + 1,
                      !.stopStartedAt = IF wc.phase = "RUNNING" THEN t ELSE wc.stopStartedAt]
         IN  [wc |-> w1, dec |-> Decision("ACCEPTED", TRUE, w1, "", 0)]

lifecycleHTTPCode(err, fallback) ==
    CASE err = "budget" -> StatusTooManyRequests
      [] err = "wrong_state" -> StatusConflict
      [] OTHER -> fallback

lifecycleErrorMessage(err, fallback) ==
    CASE err = "budget" -> MsgBudget
      [] err = "wrong_state" -> MsgWrongState
      [] OTHER -> fallback

lifecycleRetryAfter(dec) == IF dec.err = "budget" THEN dec.retryAfter ELSE 0

----------------------------------------------------------------------------
(* Idempotency replay cache *)

NoKey == "none"

keyHash(rawKey) == <<"sha256", rawKey>>

requestFingerprint(body) == <<"sha256", body>>

IdemSlot(scope, rawKey) == <<scope, keyHash(rawKey)>>

\* outcome of looking a mutation up in the replay cache
idempotencyLookup(records, scope, rawKey, body) ==
    IF rawKey = NoKey THEN "untracked"
    ELSE IF IdemSlot(scope, rawKey) \notin DOMAIN records THEN "new"
    ELSE IF records[IdemSlot(scope, rawKey)].fingerprint = requestFingerprint(body) THEN "replay"
    ELSE "conflict"

slotFree_Always(slots, slot) == TRUE

\* the (scope, key hash) slot is taken by the first in-flight mutation only
slotFree(slots, slot) == slot \notin slots

\* RecordIdempotent: insert unless a record is already there
RecordIdempotent(records, scope, rawKey, body, statusCode, payload) ==
    IF rawKey = NoKey \/ IdemSlot(scope, rawKey) \in DOMAIN records THEN records
    ELSE MapPut(records, IdemSlot(scope, rawKey),
                [fingerprint |-> requestFingerprint(body),
                 status |-> statusCode, body |-> payload])

----------------------------------------------------------------------------
(* Handlers of POST /process/kill and POST /process/restart *)

Scope(route) == IF route = "kill" THEN "POST /process/kill" ELSE "POST /process/restart"

AuditEvent(action, rid, pid) == [action |-> action, rid |-> rid, pid |-> pid]

decisionPayload(route, dec, st) ==
    [NoBody EXCEPT !.kind = "decision",
                   !.dstatus = dec.status,
                   !.pid = dec.pid,
                   !.lifecycle = dec.lifecycle,
                   !.command = IF route = "restart" THEN st.Command ELSE ""]

\* HandleProcessKill after requestLifecycleKill returned
killResponse(rid, dec, st) ==
    IF dec.err # ""
    THEN LET statusCode == lifecycleHTTPCode(dec.err, StatusInternalServerError)
             msg == lifecycleErrorMessage(dec.err, MsgInternal)
         IN  Response(statusCode, 0, problemPayload(rid, statusCode, msg, 0))
    ELSE Response(StatusAccepted, 0, decisionPayload("kill", dec, st))

restartResponse_NoHeader(rid, dec, st) ==
    IF dec.err # ""
    THEN LET statusCode == lifecycleHTTPCode(dec.err, StatusInternalServerError)
             msg == lifecycleErrorMessage(dec.err, MsgInternal)
             retryAfter == lifecycleRetryAfter(dec)
         IN  Response(statusCode, 0, problemPayload(rid, statusCode, msg, retryAfter))
    ELSE Response(StatusAccepted, 0, decisionPayload("restart", dec, st))

\* HandleProcessRestart after requestLifecycleRestart returned
restartResponse(rid, dec, st) ==
    IF dec.err # ""
    THEN LET statusCode == lifecycleHTTPCode(dec.err, StatusInternalServerError)
             msg == lifecycleErrorMessage(dec.err, MsgInternal)
             retryAfter == lifecycleRetryAfter(dec)
         IN  IF retryAfter > 0
             THEN Response(statusCode, retryAfter, problemPayload(rid, statusCode, msg, retryAfter))
             ELSE Response(statusCode, 0, problemPayload(rid, statusCode, msg, 0))
    ELSE Response(StatusAccepted, 0, decisionPayload("restart", dec, st))

\* the audit events a handler appends after the lifecycle request returned
mutationAudit(route, rid, dec, st) ==
    IF dec.err # ""
    THEN IF route = "restart" /\ lifecycleHTTPCode(dec.err, StatusInternalServerError) = StatusTooManyRequests
         THEN <<AuditEvent("RESTART_BLOCKED", rid, st.PID)>>
         ELSE << >>
    ELSE IF dec.acceptedNew
         THEN <<AuditEvent(IF route = "kill" THEN "KILL" ELSE "RESTART", rid, dec.pid)>>
         ELSE << >>

\* every path of the handlers after beginIdempotentMutation persists its reply
persistsReply_OnlySuccess(dec) == dec.err = ""

persistsReply(dec) == TRUE

----------------------------------------------------------------------------
(* Requests *)

IdleRequest ==
    [pc |-> "idle", rid |-> 0, route |-> "kill", method |-> "POST", token |-> "none",
     ip |-> 1, key |-> NoKey, body |-> "b1", direct |-> FALSE,
     decision |-> NoDecision,
     acted |-> FALSE, authed |-> FALSE, admitted |-> FALSE, overlap |-> FALSE, outcome |-> "",
     budgetFull |-> FALSE, inFlightOp |-> "", expectRetry |-> 0, streak |-> 0]

InFlight(i) == req[i].pc # "idle"

NoHist == [first |-> EmptyMap, execs |-> EmptyMap, accepts |-> << >>, wrongStreak |-> [ip \in IPs |-> 0]]

\* the response is written and the connection is free again
Reply(i, r, outcome) ==
    /\ last' = [req |-> [req[i] EXCEPT !.pc = "done", !.outcome = outcome], resp |-> r]
    /\ req' = [req EXCEPT ![i] = IdleRequest]

\* a client sends a request on connection i
Arrive(i, route, method, token, ip, key, body, direct) ==
    /\ ~InFlight(i)
    /\ issued' = issued + 1
    /\ req' = [req EXCEPT ![i] =
                 [IdleRequest EXCEPT
                    !.pc = IF direct THEN "handler" ELSE "admit",
                    !.rid = issued + 1, !.route = route, !.method = method,
                    !.token = token, !.ip = ip, !.key = key, !.body = body,
                    !.direct = direct,
                    !.streak = hist.wrongStreak[ip],
                    !.overlap = \E j \in Conns \ {i} :
                                   /\ InFlight(j)
                                   /\ req[j].route = route
                                   /\ req[j].key = key
                                   /\ key # NoKey]]
    /\ hist' = [hist EXCEPT !.wrongStreak[ip] =
                  IF token = "wrong" THEN IF @ < MaxAuthRequests THEN @ + 1 ELSE @ ELSE 0]
    /\ UNCHANGED <<components, now, apiKey, limiter, idemRecords, idemSlots, workerControl,
                   currentState, lifecycleOverride, auditLog, last>>

\* withSecurity: CORS, request id, OPTIONS short-circuit, rate limiter
WithSecurity(i) ==
    /\ req[i].pc = "admit"
    /\ IF req[i].method = "OPTIONS"
       THEN /\ Reply(i, Response(StatusOK, 0, NoBody), "options")
            /\ UNCHANGED limiter
       ELSE LET a == allow(limiter, req[i].ip, now)
            IN  /\ limiter' = a.lim
                /\ IF a.ok
                   THEN /\ req' = [req EXCEPT ![i].pc = "handler", ![i].admitted = TRUE]
                        /\ UNCHANGED last
                   ELSE Reply(i, writeJSONErrorForRequest(req[i].rid, StatusTooManyRequests, MsgRateLimit),
                              "limited")
    /\ UNCHANGED <<components, now, apiKey, idemRecords, idemSlots, workerControl,
                   currentState, lifecycleOverride, auditLog, issued, hist>>

\* HandleProcessKill / HandleProcessRestart up to and including requireAuth
HandlerEntry_BeginRegardless(i) ==
    /\ req[i].pc = "handler"
    /\ IF req[i].method = "OPTIONS"
       THEN /\ Reply(i, Response(StatusOK, 0, NoBody), "options")
            /\ UNCHANGED limiter
       ELSE IF req[i].method # "POST"
       THEN /\ Reply(i, writeJSONErrorForRequest(req[i].rid, StatusMethodNotAllowed, MsgMethod), "method")
            /\ UNCHANGED limiter
       ELSE LET a == requireAuth(apiKey, limiter, req[i].rid, req[i].method, req[i].token, req[i].ip, now)
            IN  /\ limiter' = a.lim
                /\ req' = [req EXCEPT ![i].pc = "begin", ![i].authed = a.ok]
                /\ UNCHANGED last
    /\ UNCHANGED <<components, now, apiKey, idemRecords, idemSlots, workerControl,
                   currentState, lifecycleOverride, auditLog, issued, hist>>

HandlerEntry(i) ==
    /\ req[i].pc = "handler"
    /\ IF req[i].method = "OPTIONS"
       THEN /\ Reply(i, Response(StatusOK, 0, NoBody), "options")
            /\ UNCHANGED limiter
       ELSE IF req[i].method # "POST"
       THEN /\ Reply(i, writeJSONErrorForRequest(req[i].rid, StatusMethodNotAllowed, MsgMethod), "method")
            /\ UNCHANGED limiter
       ELSE LET a == requireAuth(apiKey, limiter, req[i].rid, req[i].method, req[i].token, req[i].ip, now)
            IN  /\ limiter' = a.lim
                /\ IF a.ok
                   THEN /\ req' = [req EXCEPT ![i].pc = "begin", ![i].authed = TRUE]
                        /\ UNCHANGED last
                   ELSE Reply(i, a.resp, "auth")
    /\ UNCHANGED <<components, now, apiKey, idemRecords, idemSlots, workerControl,
                   currentState, lifecycleOverride, auditLog, issued, hist>>

\* beginIdempotentMutation: replay, conflict, or take the (scope, key) slot;
\* a mutation whose slot is held by another in-flight mutation waits here
BeginIdempotentMutation(i) ==
    /\ req[i].pc = "begin"
    /\ LET scope == Scope(req[i].route)
           slot == IdemSlot(scope, req[i].key)
           found == idempotencyLookup(idemRecords, scope, req[i].key, req[i].body)
       IN  CASE found = "untracked" ->
                  /\ req' = [req EXCEPT ![i].pc = "lifecycle"]
                  /\ UNCHANGED <<last, idemSlots>>
             [] found = "new" ->
                  /\ slotFree(idemSlots, slot)
                  /\ idemSlots' = idemSlots \cup {slot}
                  /\ req' = [req EXCEPT ![i].pc = "lifecycle"]
                  /\ UNCHANGED last
             [] found = "replay" ->
                  /\ Reply(i, Response(idemRecords[slot].status, 0, idemRecords[slot].body), "replay")
                  /\ UNCHANGED idemSlots
             [] found = "conflict" ->
                  /\ Reply(i, writeJSONErrorForRequest(req[i].rid, StatusConflict, MsgIdemConflict), "conflict")
                  /\ UNCHANGED idemSlots
    /\ UNCHANGED <<components, now, apiKey, limiter, idemRecords, workerControl,
                   currentState, lifecycleOverride, auditLog, issued, hist>>

\* the manager publishes its phase through state.UpdateLifecycle
PublishPhase(wc) ==
    LET u == UpdateLifecycle(currentState, lifecycleOverride, wc.phase, wc.phase, wc.pid)
    IN  /\ currentState' = u.state
        /\ lifecycleOverride' = u.override

\* registerSpecFromStateIfMissing + requestLifecycleKill / requestLifecycleRestart
RequestLifecycle(i) ==
    /\ req[i].pc = "lifecycle"
    /\ LET res == IF req[i].route = "kill"
                  THEN requestLifecycleKill(workerControl, now)
                  ELSE requestLifecycleRestart(workerControl, now)
           slot == IdemSlot(Scope(req[i].route), req[i].key)
           inWin == SelectSeq(hist.accepts, LAMBDA a : now - a < RestartBudgetWindow)
       IN  /\ workerControl' = res.wc
           /\ IF res.wc # workerControl
              THEN PublishPhase(res.wc)
              ELSE UNCHANGED <<currentState, lifecycleOverride>>
           /\ req' = [req EXCEPT ![i].pc = "finish",
                                 ![i].decision = res.dec,
                                 ![i].acted = TRUE,
                                 ![i].inFlightOp = workerControl.operation,
                                 ![i].budgetFull = (req[i].route = "restart"
                                                     /\ Len(inWin) >= RestartBudgetMax),
                                 ![i].expectRetry = IF inWin = << >> THEN 0
                                                    ELSE inWin[1] + RestartBudgetWindow - now]
           /\ hist' = [hist EXCEPT
                         !.execs = IF req[i].key = NoKey THEN @
                                   ELSE MapPut(@, slot, IF slot \in DOMAIN @ THEN @[slot] + 1 ELSE 1),
                         !.accepts = IF req[i].route = "restart" /\ res.dec.acceptedNew
                                     THEN Append(@, now) ELSE @]
    /\ UNCHANGED <<components, now, apiKey, limiter, idemRecords, idemSlots, auditLog, last, issued>>

\* the rest of the handler: state.GetState, audit event, persistIdempotentMutation, reply
FinishMutationWith(i, auditOk) ==
    /\ req[i].pc = "finish"
    /\ LET st == GetState(currentState)
           r == IF req[i].route = "kill"
                THEN killResponse(req[i].rid, req[i].decision, st)
                ELSE restartResponse(req[i].rid, req[i].decision, st)
           scope == Scope(req[i].route)
           slot == IdemSlot(scope, req[i].key)
       IN  /\ auditLog' = IF auditOk
                         THEN auditLog \o mutationAudit(req[i].route, req[i].rid, req[i].decision, st)
                         ELSE auditLog
           /\ idemRecords' = IF persistsReply(req[i].decision)
                             THEN RecordIdempotent(idemRecords, scope, req[i].key, req[i].body,
                                                   r.status, r.body)
                             ELSE idemRecords
           /\ idemSlots' = idemSlots \ {slot}
           /\ hist' = [hist EXCEPT !.first =
                         IF req[i].key = NoKey \/ slot \in DOMAIN @ THEN @
                         ELSE MapPut(@, slot, [rid |-> req[i].rid,
                                               fingerprint |-> requestFingerprint(req[i].body),
                                               status |-> r.status, body |-> r.body])]
           /\ Reply(i, r, IF auditOk \/ mutationAudit(req[i].route, req[i].rid, req[i].decision, st) = << >>
                           THEN "executed" ELSE "audit_failed")
    /\ UNCHANGED <<components, now, apiKey, limiter, workerControl, currentState, lifecycleOverride, issued>>

\* the handler while the ledger takes its writes
FinishMutation(i) == FinishMutationWith(i, TRUE)

----------------------------------------------------------------------------
(* Supervisor and child process, as seen by the lifecycle manager *)

\* Supervisor.Stop returned: every process of the tree is gone, or some survived
SupervisorStopReturns(ok) ==
    /\ workerControl.phase = "STOPPING"
    /\ LET w1 == IF ok
                 THEN [workerControl EXCEPT
                         !.phase = "STOPPED", !.pid = 0,
                         !.operation = IF @ = "kill" THEN "" ELSE @,
                         !.lastDone = IF workerControl.operation = "kill" THEN "kill" ELSE @]
                 ELSE [workerControl EXCEPT
                         !.phase = "FAILED", !.operation = "", !.lastDone = ""]
       IN  /\ workerControl' = w1
           /\ PublishPhase(w1)
    /\ UNCHANGED <<components, now, apiKey, limiter, idemRecords, idemSlots, auditLog, req, last, issued, hist>>

\* second half of a restart: spawn the child again
SupervisorStart ==
    /\ workerControl.phase = "STOPPED"
    /\ workerControl.operation = "restart"
    /\ LET w1 == [workerControl EXCEPT !.phase = "STARTING", !.pid = workerControl.nextPid,
                                       !.nextPid = @ + 1]
       IN  /\ workerControl' = w1
           /\ PublishPhase(w1)
    /\ UNCHANGED <<components, now, apiKey, limiter, idemRecords, idemSlots, auditLog, req, last, issued, hist>>

\* the spawned child is up
ChildStarted ==
    /\ workerControl.phase = "STARTING"
    /\ LET w1 == [workerControl EXCEPT !.phase = "RUNNING", !.operation = "", !.lastDone = "restart"]
       IN  /\ workerControl' = w1
           /\ PublishPhase(w1)
    /\ UNCHANGED <<components, now, apiKey, limiter, idemRecords, idemSlots, auditLog, req, last, issued, hist>>

\* the child exits on its own while RUNNING
ChildExited ==
    /\ workerControl.phase = "RUNNING"
    /\ workerControl.operation = ""
    /\ LET w1 == [workerControl EXCEPT !.phase = "FAILED", !.pid = 0, !.lastDone = ""]
       IN  /\ workerControl' = w1
           /\ PublishPhase(w1)
    /\ UNCHANGED <<components, now, apiKey, limiter, idemRecords, idemSlots, auditLog, req, last, issued, hist>>

\* Time passes.  A tick (half a minute) is longer than the server's read and
\* write timeouts, so no request is in the middle of its handler across a tick;
\* Supervisor.Stop returns before its timeout has elapsed.
Tick(horizon) ==
    /\ now < horizon
    /\ \A i \in Conns : ~InFlight(i)
    /\ ~(workerControl.phase = "STOPPING" /\ now - workerControl.stopStartedAt >= StopTimeout)
    /\ now' = now + 1
    /\ UNCHANGED <<components, apiKey, limiter, idemRecords, idemSlots, workerControl,
                   currentState, lifecycleOverride, auditLog, req, last, issued, hist>>

----------------------------------------------------------------------------
(* Supervisor: teardown of the process tree it started *)

Procs == {"root", "child", "grandchild"}

\* a process: alive or gone, whether it ignores the graceful signal, and
\* whether it is still in the root's process group (it is not after setsid)
Proc(alive, ignoresTerm, inGroup) ==
    [alive |-> alive, ignoresTerm |-> ignoresTerm, inGroup |-> inGroup]

\* New + Start: the root is the leader of its own process group (Setpgid)
NewSupervisor(tree) ==
    [procs |-> tree, known |-> {}, pc |-> "started", signals |-> << >>,
     ret |-> "none", calls |-> 0]

DefaultTree ==
    [p \in Procs |-> Proc(p = "root", FALSE, TRUE)]

\* every shape of the tree Start can leave behind by the time Stop is called
Trees ==
    {t \in [Procs -> {Proc(a, g, i) : a, g, i \in BOOLEAN}] :
        /\ t["root"].inGroup
        /\ \A p \in Procs : ~t[p].alive => (~t[p].ignoresTerm /\ t[p].inGroup)}

\* the descendants found by walking the tree from the root; a process whose
\* parent is gone was reparented to PID 1 and is not found
snapshotTree(procs) ==
    {"root"}
      \cup (IF procs["root"].alive /\ procs["child"].alive
            THEN {"child"} \cup (IF procs["grandchild"].alive THEN {"grandchild"} ELSE {})
            ELSE {})

\* kill(-pgid, sig)
signalGroup(procs, sig) ==
    [p \in Procs |->
        IF procs[p].alive /\ procs[p].inGroup /\ (sig = "KILL" \/ ~procs[p].ignoresTerm)
        THEN [procs[p] EXCEPT !.alive = FALSE]
        ELSE procs[p]]

\* kill(pid, sig)
signalPid(procs, pid, sig) ==
    [procs EXCEPT ![pid].alive = IF sig = "KILL" \/ ~procs[pid].ignoresTerm THEN FALSE ELSE @]

\* after the polling deadline: does anything of the group still live?
needsForce_RootOnly(procs) == procs["root"].alive

needsForce(procs) == \E p \in Procs : procs[p].alive /\ procs[p].inGroup

treeGone(sup) == \A p \in sup.known : ~sup.procs[p].alive

\* Stop, first part: snapshot the tree, graceful signal to the group
SupervisorStopGraceful ==
    /\ supervisor.pc = "started"
    /\ supervisor' = [supervisor EXCEPT
                        !.known = snapshotTree(supervisor.procs),
                        !.procs = signalGroup(supervisor.procs, "TERM"),
                        !.signals = Append(@, <<"TERM", "group">>),
                        !.pc = "polling"]
    /\ UNCHANGED <<controlPlane, ledger, functions>>

\* Stop, second part: the polling deadline passed; forceful signal to the
\* group and then to the root when something still lives
SupervisorStopEscalate ==
    /\ supervisor.pc = "polling"
    /\ supervisor' =
          IF needsForce(supervisor.procs)
          THEN [supervisor EXCEPT
                  !.procs = signalPid(signalGroup(supervisor.procs, "KILL"), "root", "KILL"),
                  !.signals = @ \o << <<"KILL", "group">>, <<"KILL", "root">> >>,
                  !.pc = "settled"]
          ELSE [supervisor EXCEPT !.pc = "settled"]
    /\ UNCHANGED <<controlPlane, ledger, functions>>

\* Stop returns: success when the root and all known descendants are gone
SupervisorStopDone ==
    /\ supervisor.pc = "settled"
    /\ supervisor' = [supervisor EXCEPT
                        !.ret = IF treeGone(supervisor) THEN "ok" ELSE "error",
                        !.calls = @ + 1,
                        !.pc = "stopped"]
    /\ UNCHANGED <<controlPlane, ledger, functions>>

\* Stop called on a supervisor that has already been stopped
stopAgain_Resignal(sup) ==
    [sup EXCEPT !.procs = signalGroup(sup.procs, "KILL"),
                !.signals = Append(@, <<"KILL", "group">>),
                !.ret = IF treeGone(sup) THEN "ok" ELSE "error",
                !.calls = @ + 1]

stopAgain(sup) == [sup EXCEPT !.ret = "ok", !.calls = @ + 1]

SupervisorStopAgain ==
    /\ supervisor.pc = "stopped"
    /\ supervisor.calls < MaxStopCalls
    /\ supervisor' = stopAgain(supervisor)
    /\ UNCHANGED <<controlPlane, ledger, functions>>

\* a process of the tree exits on its own
ProcessExits(p) ==
    /\ supervisor.procs[p].alive
    /\ supervisor' = [supervisor EXCEPT !.procs[p].alive = FALSE]
    /\ UNCHANGED <<controlPlane, ledger, functions>>


----------------------------------------------------------------------------
(* The ledger: events table, decision traces, signal-baseline state *)

MaxTraces == 3
MaxEvaluations == 3
MaxLedgerEvents == 3
MaxDemoRuns == 2
MaxRaceEvaluations == 3

BucketKeys == {"A", "B"}
Scores == {0, 50}

defaultDecisionSignalBaselineLimit == 500
defaultDecisionSignalCPUDeltaThreshold == 25
defaultDecisionSignalBaselineMinSamples == 3
defaultDecisionSignalBaselineRequiredStreak == 2

signalBaselineStatusHealthy == "healthy"
signalBaselineStatusPending == "pending"
signalBaselineStatusAtRisk == "at_risk"
signalBaselineStatusInsufficientHistory == "insufficient_history"

\* a row of the events table; its id is its position in the table
Event(kind, title, bucket, cpu, pid, rid) ==
    [kind |-> kind, title |-> title, bucket |-> bucket, cpu |-> cpu, pid |-> pid, rid |-> rid]

DecisionTrace(bucket, cpu) == Event("decision", "", bucket, cpu, 0, "")

\* the append-only trigger on the events table: raises on UPDATE and DELETE
appendOnlyTrigger_Absent(op) == FALSE

appendOnlyTrigger(op) == op \in {"UPDATE", "DELETE"}

RemoveAt(seq, k) == [j \in 1..(Len(seq) - 1) |-> IF j < k THEN seq[j] ELSE seq[j + 1]]

\* one SQL statement against the events table: the table afterwards and the error
execEvents(table, op, id, row) ==
    IF op = "INSERT" THEN [table |-> Append(table, row), err |-> FALSE]
    ELSE IF appendOnlyTrigger(op) THEN [table |-> table, err |-> TRUE]
    ELSE IF id \notin DOMAIN table THEN [table |-> table, err |-> FALSE]
    ELSE IF op = "UPDATE" THEN [table |-> [table EXCEPT ![id] = row], err |-> FALSE]
    ELSE [table |-> RemoveAt(table, id), err |-> FALSE]

InsertEvent(table, row) == execEvents(table, "INSERT", 0, row).table

\* ids of the newest `limit` decision traces
GetDecisionTraces(table, limit) ==
    LET ids == {k \in DOMAIN table : table[k].kind = "decision"}
    IN  {k \in ids : Cardinality({j \in ids : j > k}) < limit}

decisionSignalBucketKey(trace) == trace.bucket

RECURSIVE sumCPUScores(_, _)
sumCPUScores(table, ids) ==
    IF ids = {} THEN 0
    ELSE LET k == CHOOSE x \in ids : TRUE
         IN  table[k].cpu + sumCPUScores(table, ids \ {k})

Abs(x) == IF x < 0 THEN 0 - x ELSE x

NoRow == [LatestTraceID |-> 0, ConsecutiveBreach |-> 0, Status |-> ""]

\* bucketTraces[0] of a newest-first list
latestOf(bucketTraces) == CHOOSE k \in bucketTraces : \A j \in bucketTraces : j <= k

baselineTracesOf(bucketTraces) ==
    IF Cardinality(bucketTraces) > 1 THEN bucketTraces \ {latestOf(bucketTraces)}
    ELSE bucketTraces

\* |latest - mean(baseline)| >= threshold, in integers: both sides times the baseline size
cpuDriftOf(table, bucketTraces) ==
    LET baseline == baselineTracesOf(bucketTraces)
        n == Cardinality(baseline)
    IN  Abs(table[latestOf(bucketTraces)].cpu * n - sumCPUScores(table, baseline))
            >= defaultDecisionSignalCPUDeltaThreshold * n

\* the streak after a breaching evaluation
breachStreak_EveryEvaluation(previous, latestIsNew) ==
    LET c == IF previous.Status \in {signalBaselineStatusPending, signalBaselineStatusAtRisk}
             THEN previous.ConsecutiveBreach + 1
             ELSE 1
    IN  IF c <= 0 THEN 1 ELSE c

breachStreak(previous, latestIsNew) ==
    LET c == IF latestIsNew
             THEN IF previous.Status \in {signalBaselineStatusPending, signalBaselineStatusAtRisk}
                  THEN previous.ConsecutiveBreach + 1
                  ELSE 1
             ELSE previous.ConsecutiveBreach
    IN  IF c <= 0 THEN 1 ELSE c

\* the evaluation of one bucket of the scanned window
evaluateBucket_StreakKept(table, bucketTraces, stored, g) ==
    LET latest == latestOf(bucketTraces)
        baseline == baselineTracesOf(bucketTraces)
        breachSignalCount == IF cpuDriftOf(table, bucketTraces) THEN 1 ELSE 0
        insufficientHistory == Cardinality(baseline) < g.MinBaselineSamples
        hasPrevious == stored # NoRow
        previous == IF hasPrevious THEN stored
                    ELSE [NoRow EXCEPT !.Status = signalBaselineStatusHealthy]
        latestIsNew == ~hasPrevious \/ latest # previous.LatestTraceID
        count == IF insufficientHistory THEN 0
                 ELSE IF breachSignalCount = 0 THEN previous.ConsecutiveBreach
                 ELSE breachStreak(previous, latestIsNew)
        status == IF insufficientHistory THEN signalBaselineStatusInsufficientHistory
                  ELSE IF breachSignalCount = 0 THEN signalBaselineStatusHealthy
                  ELSE IF count >= g.RequiredStreak THEN signalBaselineStatusAtRisk
                  ELSE signalBaselineStatusPending
    IN  [LatestTraceID |-> latest,
         SampleCount |-> Cardinality(bucketTraces),
         BaselineSampleCount |-> Cardinality(baseline),
         BreachSignalCount |-> breachSignalCount,
         InsufficientHistory |-> insufficientHistory,
         ConsecutiveBreachCount |-> count,
         Status |-> status,
         hasPrevious |-> hasPrevious,
         previous |-> previous]

evaluateBucket(table, bucketTraces, stored, g) ==
    LET latest == latestOf(bucketTraces)
        baseline == baselineTracesOf(bucketTraces)
        breachSignalCount == IF cpuDriftOf(table, bucketTraces) THEN 1 ELSE 0
        insufficientHistory == Cardinality(baseline) < g.MinBaselineSamples
        hasPrevious == stored # NoRow
        previous == IF hasPrevious THEN stored
                    ELSE [NoRow EXCEPT !.Status = signalBaselineStatusHealthy]
        latestIsNew == ~hasPrevious \/ latest # previous.LatestTraceID
        count == IF insufficientHistory \/ breachSignalCount = 0 THEN 0
                 ELSE breachStreak(previous, latestIsNew)
        status == IF insufficientHistory THEN signalBaselineStatusInsufficientHistory
                  ELSE IF breachSignalCount = 0 THEN signalBaselineStatusHealthy
                  ELSE IF count >= g.RequiredStreak THEN signalBaselineStatusAtRisk
                  ELSE signalBaselineStatusPending
    IN  [LatestTraceID |-> latest,
         SampleCount |-> Cardinality(bucketTraces),
         BaselineSampleCount |-> Cardinality(baseline),
         BreachSignalCount |-> breachSignalCount,
         InsufficientHistory |-> insufficientHistory,
         ConsecutiveBreachCount |-> count,
         Status |-> status,
         hasPrevious |-> hasPrevious,
         previous |-> previous]

\* the audit event of a transition, or none when at_risk is on neither side
emitSignalBaselineTransitionEvent(requestID, bucketKey, previousStatus, currentStatus, latest) ==
    IF ~(previousStatus = signalBaselineStatusAtRisk \/ currentStatus = signalBaselineStatusAtRisk)
    THEN << >>
    ELSE << Event("audit",
                  IF currentStatus = signalBaselineStatusAtRisk
                  THEN "SIGNAL_BASELINE_AT_RISK" ELSE "SIGNAL_BASELINE_RECOVERED",
                  bucketKey, latest.cpu, latest.pid, requestID) >>

\* the events one bucket's evaluation appends
transitionEvents(table, key, b, options) ==
    IF options.EmitAuditTransitions /\ b.hasPrevious /\ b.previous.Status # b.Status
    THEN emitSignalBaselineTransitionEvent(options.RequestID, key, b.previous.Status,
                                           b.Status, table[b.LatestTraceID])
    ELSE << >>

\* the orders in which a map over the bucket keys can be iterated
BucketOrders == {<<"A", "B">>, <<"B", "A">>}

buildDecisionSignalBaselineSummary(limit, options) ==
    LET traces == GetDecisionTraces(events, limit)
        bucketMap == [key \in BucketKeys |-> {k \in traces : decisionSignalBucketKey(events[k]) = key}]
        keys == {key \in BucketKeys : bucketMap[key] # {}}
        buckets == [key \in keys |->
                      evaluateBucket(events, bucketMap[key], baselineState[key], guardrails)]
        emitted == [key \in BucketKeys |->
                      IF key \in keys THEN transitionEvents(events, key, buckets[key], options)
                      ELSE << >>]
    IN  /\ baselineState' = [key \in BucketKeys |->
              IF key \in keys /\ options.PersistState
              THEN [LatestTraceID |-> buckets[key].LatestTraceID,
                    ConsecutiveBreach |-> buckets[key].ConsecutiveBreachCount,
                    Status |-> buckets[key].Status]
              ELSE baselineState[key]]
        /\ \E order \in BucketOrders :
              events' = events \o emitted[order[1]] \o emitted[order[2]]
        /\ report' = [op |-> "evaluate", n |-> report.n + 1, limit |-> limit,
                      options |-> options, keys |-> keys, buckets |-> buckets,
                      emitted |-> emitted]
        /\ observed' = [key \in BucketKeys |->
              IF key \in keys
              THEN Append(observed[key],
                          [id |-> buckets[key].LatestTraceID,
                           breach |-> ~buckets[key].InsufficientHistory
                                      /\ buckets[key].BreachSignalCount > 0])
              ELSE observed[key]]

Limits == {2, defaultDecisionSignalBaselineLimit}

\* GET /v1/ops/decisions/signal-baseline
HandleDecisionSignalBaseline(limit) ==
    /\ report.n < MaxEvaluations
    /\ buildDecisionSignalBaselineSummary(limit,
          [PersistState |-> TRUE, EmitAuditTransitions |-> TRUE, RequestID |-> "req"])
    /\ UNCHANGED <<controlPlane, functions, supervisor, guardrails, demo>>

\* the signal-baseline section of a /metrics scrape
decisionSignalBaselinePrometheus ==
    /\ report.n < MaxEvaluations
    /\ buildDecisionSignalBaselineSummary(defaultDecisionSignalBaselineLimit,
          [PersistState |-> TRUE, EmitAuditTransitions |-> FALSE, RequestID |-> ""])
    /\ UNCHANGED <<controlPlane, functions, supervisor, guardrails, demo>>

\* a decision is recorded by the monitor
LogDecisionTrace(bucket, cpu) ==
    /\ Cardinality({k \in DOMAIN events : events[k].kind = "decision"}) < MaxTraces
    /\ events' = InsertEvent(events, DecisionTrace(bucket, cpu))
    /\ UNCHANGED <<controlPlane, functions, supervisor, baselineState, guardrails, demo, report, observed>>

\* rows that writers append to the events table
LedgerRows ==
    {DecisionTrace(bucket, cpu) : bucket \in BucketKeys, cpu \in Scores}
        \cup {Event("audit", title, "", 0, 0, "") : title \in {"KILL", "RESTART"}}

AppendEvent(row) ==
    /\ Len(events) < MaxLedgerEvents
    /\ events' = InsertEvent(events, row)
    /\ report' = [op |-> "INSERT", n |-> report.n, id |-> Len(events) + 1, err |-> FALSE,
                  before |-> row]
    /\ UNCHANGED <<controlPlane, functions, supervisor, baselineState, guardrails, demo, observed>>

\* an UPDATE or DELETE statement aimed at a persisted event
AlterEvent(op, id, row) ==
    /\ op \in {"UPDATE", "DELETE"}
    /\ id \in DOMAIN events
    /\ LET r == execEvents(events, op, id, row)
       IN  /\ events' = r.table
           /\ report' = [op |-> op, n |-> report.n, id |-> id, err |-> r.err,
                         before |-> events[id]]
    /\ UNCHANGED <<controlPlane, functions, supervisor, baselineState, guardrails, demo, observed>>

NoReport == [op |-> "", n |-> 0]

\* no demo run yet
NoDemo == [pc |-> "idle", run |-> 0, pid |-> 0, cpuScore |-> 0]

InitLedger ==
    /\ events = << >>
    /\ baselineState = [key \in BucketKeys |-> NoRow]
    /\ guardrails = [MinBaselineSamples |-> defaultDecisionSignalBaselineMinSamples,
                     RequiredStreak |-> defaultDecisionSignalBaselineRequiredStreak]
    /\ demo = NoDemo
    /\ report = NoReport
    /\ observed = [key \in BucketKeys |-> << >>]

----------------------------------------------------------------------------
(* The demo run (cmd/demo.go) *)

\* peak CPU relative to the threshold, capped at 100, once the runaway is detected
DemoScores == {50, 100}

\* a ledger write whose error the caller discards: the row is there only if it succeeded
discardingWrite(table, row, ok) == IF ok THEN InsertEvent(table, row) ELSE table

demoUnchanged == <<controlPlane, functions, supervisor, baselineState, guardrails, report, observed>>

\* the broken worker is started and watched until the runaway is detected
DemoDetect(cpuScore) ==
    /\ demo.pc \in {"idle", "done"}
    /\ demo.run < MaxDemoRuns
    /\ demo' = [pc |-> "trace", run |-> demo.run + 1, pid |-> demo.run + 1,
                cpuScore |-> cpuScore]
    /\ UNCHANGED <<events, demoUnchanged>>

DemoLogDecisionTrace(ok) ==
    /\ demo.pc = "trace"
    /\ events' = discardingWrite(events,
          Event("decision", "RUNAWAY_DETECTED", "unknown", demo.cpuScore, demo.pid, ""), ok)
    /\ demo' = [demo EXCEPT !.pc = "audit"]
    /\ UNCHANGED demoUnchanged

DemoLogAuditKill(ok) ==
    /\ demo.pc = "audit"
    /\ events' = discardingWrite(events,
          Event("audit", "AUTO_KILL", "", 0, demo.pid, ""), ok)
    /\ demo' = [demo EXCEPT !.pc = "incident"]
    /\ UNCHANGED demoUnchanged

DemoLogIncident(ok) ==
    /\ demo.pc = "incident"
    /\ events' = discardingWrite(events,
          Event("incident", "LOOP_DETECTED", "", demo.cpuScore, demo.pid, ""), ok)
    /\ demo' = [demo EXCEPT !.pc = "restart"]
    /\ UNCHANGED demoUnchanged

\* the broken group is terminated and a healthy worker is started in its place
DemoRestart(recovered, ok) ==
    /\ demo.pc = "restart"
    /\ events' = IF recovered
                 THEN discardingWrite(events,
                         Event("audit", "AUTO_RESTART", "", 0, demo.pid + MaxDemoRuns, ""), ok)
                 ELSE events
    /\ demo' = [demo EXCEPT !.pc = "done"]
    /\ UNCHANGED demoUnchanged

runDemo ==
    \/ \E cpuScore \in DemoScores : DemoDetect(cpuScore)
    \/ \E ok \in BOOLEAN : DemoLogDecisionTrace(ok)
    \/ \E ok \in BOOLEAN : DemoLogAuditKill(ok)
    \/ \E ok \in BOOLEAN : DemoLogIncident(ok)
    \/ \E recovered \in BOOLEAN, ok \in BOOLEAN : DemoRestart(recovered, ok)

----------------------------------------------------------------------------
(* The policy engine: threshold decider *)

NoCall == [op |-> "", done |-> FALSE]

\* the application of a function to the input drawn at the start
Returns(op, out) ==
    /\ call.op = op
    /\ ~call.done
    /\ call' = [call EXCEPT !.done = TRUE, !.out = out]
    /\ UNCHANGED <<controlPlane, supervisor, ledger, stateMem>>

ActionContinue == "CONTINUE"
ActionAlert == "ALERT"
ActionKill == "KILL"
ActionRestart == "RESTART"

\* ratios are in hundredths, durations in seconds
RawDiversityGuard == 85

Telemetries ==
    [CPUPercent : {50, 96}, CPUOverFor : {5, 15}, LogRepetition : {50, 95},
     LogEntropy : {10, 50}, RawDiversity : {33, 84, 85, 100}, ProgressLike : BOOLEAN]

Policies ==
    {[MaxCPUPercent |-> 90, CPUWindow |-> 10, MinLogEntropy |-> 20, MaxLogRepetition |-> 80]}

\* rule 1: the healthy-spike guard
healthySpikeGuard_ProgressOnly(t) == t.ProgressLike

healthySpikeGuard(t) == t.ProgressLike \/ t.RawDiversity >= RawDiversityGuard

cpuBreach(t, p) == t.CPUPercent >= p.MaxCPUPercent /\ t.CPUOverFor >= p.CPUWindow

logBreach(t, p) == t.LogRepetition >= p.MaxLogRepetition \/ t.LogEntropy <= p.MinLogEntropy

\* ThresholdDecider.Evaluate: the rules in order, first match wins
Evaluate(t, p) ==
    IF healthySpikeGuard(t)
    THEN [Action |-> ActionAlert, Reason |-> "progressing output pattern detected"]
    ELSE IF cpuBreach(t, p) /\ logBreach(t, p)
    THEN [Action |-> ActionKill, Reason |-> "cpu and log breach"]
    ELSE IF cpuBreach(t, p)
    THEN [Action |-> ActionAlert, Reason |-> "cpu breach"]
    ELSE [Action |-> ActionContinue, Reason |-> ""]

DeciderEvaluate == Returns("Evaluate", Evaluate(call.telemetry, call.policy))

----------------------------------------------------------------------------
(* The policy engine: deterministic replay digest and replay verification *)

\* A string is a sequence of characters; a character is a blank or a run of
\* letters in one case ("kill", "KILL").
Space == " "

LowerRuns == {"kill", "boom", "enforce", "engine", "reason", "localhost",
              "starting", "running", "stopping", "stopped", "failed", "paused"}

upperRun ==
    [c \in LowerRuns |->
        CASE c = "kill" -> "KILL"
          [] c = "boom" -> "BOOM"
          [] c = "enforce" -> "ENFORCE"
          [] c = "engine" -> "ENGINE"
          [] c = "reason" -> "REASON"
          [] c = "localhost" -> "LOCALHOST"
          [] c = "starting" -> "STARTING"
          [] c = "running" -> "RUNNING"
          [] c = "stopping" -> "STOPPING"
          [] c = "stopped" -> "STOPPED"
          [] c = "failed" -> "FAILED"
          [] c = "paused" -> "PAUSED"]

UpperRuns == {upperRun[c] : c \in LowerRuns}

ToUpperChar(c) == IF c \in LowerRuns THEN upperRun[c] ELSE c

ToLowerChar(c) ==
    IF c \in UpperRuns THEN CHOOSE l \in LowerRuns : upperRun[l] = c ELSE c

ToUpper(str) == [i \in DOMAIN str |-> ToUpperChar(str[i])]

ToLower(str) == [i \in DOMAIN str |-> ToLowerChar(str[i])]

RECURSIVE TrimLeft(_)
TrimLeft(str) ==
    IF str # << >> /\ Head(str) = Space THEN TrimLeft(Tail(str)) ELSE str

RECURSIVE TrimRight(_)
TrimRight(str) ==
    IF str # << >> /\ str[Len(str)] = Space
    THEN TrimRight(SubSeq(str, 1, Len(str) - 1))
    ELSE str

\* strings.TrimSpace
TrimSpace(str) == TrimRight(TrimLeft(str))

\* Scores are in units of 10^-7; a rounded score is in units of 10^-6.
\* math.Round(v * 1_000_000): to the nearest integer, halves away from zero.
mathRound(v) ==
    IF v >= 0 THEN (v + 5) \div 10 ELSE 0 - ((0 - v + 5) \div 10)

normalizeReplayScore(v) == mathRound(v)

\* the fixed-point text with six decimals of a rounded score
formatReplayScore(v) == <<"f6", normalizeReplayScore(v)>>

NormalizeDecisionReplayInput(in) ==
    LET engine == TrimSpace(in.DecisionEngine)
        version == TrimSpace(in.EngineVersion)
        contract == TrimSpace(in.DecisionContract)
        rollout == ToLower(TrimSpace(in.RolloutMode))
    IN  [in |-> [DecisionEngine |-> IF engine = << >> THEN <<"legacy-decider">> ELSE engine,
                 EngineVersion |-> IF version = << >> THEN <<"legacy-unknown">> ELSE version,
                 DecisionContract |-> IF contract = << >> THEN <<"legacy-decision-trace">>
                                      ELSE contract,
                 RolloutMode |-> IF rollout = << >> THEN <<"legacy">> ELSE rollout,
                 Decision |-> ToUpper(TrimSpace(in.Decision)),
                 Reason |-> TrimSpace(in.Reason),
                 CPUScore |-> normalizeReplayScore(in.CPUScore) * 10,
                 EntropyScore |-> normalizeReplayScore(in.EntropyScore) * 10,
                 ConfidenceScore |-> normalizeReplayScore(in.ConfidenceScore) * 10],
         legacyFallback |-> << >> \in {engine, version, contract, rollout}]

\* SHA-256 of the joined lines, in hex: one digest per text, no two texts alike
sha256Hex(lines) == [sha256 |-> lines]

DecisionReplayDigest(in) ==
    LET normalized == NormalizeDecisionReplayInput(in).in
    IN  sha256Hex(<< <<"decision_engine", normalized.DecisionEngine>>,
                     <<"engine_version", normalized.EngineVersion>>,
                     <<"decision_contract_version", normalized.DecisionContract>>,
                     <<"rollout_mode", normalized.RolloutMode>>,
                     <<"decision", normalized.Decision>>,
                     <<"reason", normalized.Reason>>,
                     <<"cpu_score", formatReplayScore(normalized.CPUScore)>>,
                     <<"entropy_score", formatReplayScore(normalized.EntropyScore)>>,
                     <<"confidence_score", formatReplayScore(normalized.ConfidenceScore)>> >>)

ReplayStatusMatch == "MATCH"
ReplayStatusMismatch == "MISMATCH"
ReplayStatusMissing == "MISSING_DIGEST"
ReplayStatusLegacy == "LEGACY_FALLBACK"
ReplayStatusUnreplayable == "NOT_REPLAYABLE"

NoDigest == [sha256 |-> << >>]

\* a stored digest as written in the row: the hex text in some letter case, padded or not
StoredDigest(digest, form) == [digest |-> digest, form |-> form]

\* strings.ToLower(strings.TrimSpace(storedDigest))
normalizeStoredDigest(stored) == stored.digest

subtleDigestMatch(left, right) == left # NoDigest /\ right # NoDigest /\ left = right

VerifyDecisionReplay(storedDigest, in) ==
    LET n == NormalizeDecisionReplayInput(in)
        stored == normalizeStoredDigest(storedDigest)
        replayable == TrimSpace(n.in.Decision) # << >>
        computed == DecisionReplayDigest(n.in)
        out == [Replayable |-> replayable, Status |-> ReplayStatusUnreplayable,
                StoredDigest |-> stored, ComputedDigest |-> NoDigest,
                DeterministicMatch |-> FALSE, LegacyFallback |-> n.legacyFallback,
                CanonicalInput |-> n.in]
    IN  IF ~replayable THEN out
        ELSE IF stored = NoDigest
        THEN [out EXCEPT !.ComputedDigest = computed,
                         !.Status = IF n.legacyFallback THEN ReplayStatusLegacy
                                    ELSE ReplayStatusMissing]
        ELSE IF subtleDigestMatch(stored, computed)
        THEN [out EXCEPT !.ComputedDigest = computed, !.Status = ReplayStatusMatch,
                         !.DeterministicMatch = TRUE]
        ELSE [out EXCEPT !.ComputedDigest = computed, !.Status = ReplayStatusMismatch]

\* inputs of the digest
DecisionReplayInput(engine, rollout, decision, reason, cpu) ==
    [DecisionEngine |-> engine, EngineVersion |-> <<"1.1.0">>,
     DecisionContract |-> <<"decision-trace.v1">>, RolloutMode |-> rollout,
     Decision |-> decision, Reason |-> reason, CPUScore |-> cpu,
     EntropyScore |-> 91000000, ConfidenceScore |-> 965000001]

DigestInputs ==
    {DecisionReplayInput(engine, rollout, decision, reason, cpu) :
        engine \in {<<"engine">>, <<Space, "engine", Space>>},
        rollout \in {<<"enforce">>, <<"ENFORCE", Space>>},
        decision \in {<<"kill">>, <<"KILL">>, <<Space, "KILL">>, <<"boom">>},
        reason \in {<<"reason">>, <<"reason", Space>>},
        cpu \in {0 - 4, 0, 4, 5, 6}}

\* DecisionReplayDigest applied to each of two inputs
DigestBoth ==
    Returns("DecisionReplayDigest",
            <<DecisionReplayDigest(call.a), DecisionReplayDigest(call.b)>>)

\* decision traces as rows of the ledger, with the digest stored beside them
ReplayTraces ==
    {[in |-> DecisionReplayInput(engine, <<"enforce">>, decision, <<"reason">>, cpu),
      stored |-> stored] :
        engine \in {<<"engine">>, << >>},
        decision \in {<<"kill">>, <<"boom">>, <<Space>>, << >>},
        cpu \in {0, 5},
        stored \in {"none", "own", "other"}}

ReplayDigestOf(trace) ==
    CASE trace.stored = "none" -> StoredDigest(NoDigest, "lower")
      [] trace.stored = "own" -> StoredDigest(DecisionReplayDigest(trace.in), "UPPER")
      [] trace.stored = "other" -> StoredDigest(sha256Hex(<<"deadbeef">>), "lower")

StatusNotFound == 404

\* GET /v1/ops/decisions/replay/{trace_id}
HandleDecisionReplay(found, trace, strict) ==
    IF ~found
    THEN [code |-> StatusNotFound, replay_status |-> "", replayable |-> FALSE]
    ELSE LET verification == VerifyDecisionReplay(ReplayDigestOf(trace), trace.in)
         IN  [code |-> StatusOK, replay_status |-> verification.Status,
              replayable |-> verification.Replayable]

DecisionReplayReturns ==
    Returns("HandleDecisionReplay", HandleDecisionReplay(call.found, call.trace, call.strict))

----------------------------------------------------------------------------
(* Cursor pagination of the /v1 reads *)

StatusBadRequest == 400

defaultCursorPageLimit == 100
maxCursorPageLimit == 500

Digits == <<"0", "1", "2", "3", "4", "5", "6", "7", "8", "9">>

IsDigit(c) == \E d \in DOMAIN Digits : Digits[d] = c

DigitValue(c) == (CHOOSE d \in DOMAIN Digits : Digits[d] = c) - 1

RECURSIVE ParseUint(_, _)
ParseUint(str, acc) ==
    IF str = << >> THEN acc
    ELSE ParseUint(Tail(str), acc * 10 + DigitValue(Head(str)))

\* strconv.Atoi and strconv.ParseInt(raw, 10, 64): an optional sign, then one
\* or more decimal digits and nothing else
Atoi(str) ==
    LET signed == str # << >> /\ Head(str) \in {"+", "-"}
        digits == IF signed THEN Tail(str) ELSE str
    IN  IF digits = << >> \/ \E i \in DOMAIN digits : ~IsDigit(digits[i])
        THEN [err |-> TRUE, value |-> 0]
        ELSE [err |-> FALSE,
              value |-> IF signed /\ Head(str) = "-"
                        THEN 0 - ParseUint(digits, 0)
                        ELSE ParseUint(digits, 0)]

parseCursorPageQuery_ZeroCursor(rawLimit, rawCursor, defaultLimit, maxLimit) ==
    LET trimmedLimit == TrimSpace(rawLimit)
        parsedLimit == Atoi(trimmedLimit)
        trimmedCursor == TrimSpace(rawCursor)
        parsedCursor == Atoi(trimmedCursor)
    IN  IF trimmedLimit # << >>
           /\ (parsedLimit.err \/ parsedLimit.value < 1 \/ parsedLimit.value > maxLimit)
        THEN [limit |-> 0, cursor |-> 0, err |-> "limit must be an integer between 1 and max"]
        ELSE IF trimmedCursor # << >> /\ (parsedCursor.err \/ parsedCursor.value < 0)
        THEN [limit |-> 0, cursor |-> 0, err |-> "cursor must be a positive integer"]
        ELSE [limit |-> IF trimmedLimit # << >> THEN parsedLimit.value ELSE defaultLimit,
              cursor |-> IF trimmedCursor # << >> THEN parsedCursor.value ELSE 0,
              err |-> ""]

parseCursorPageQuery(rawLimit, rawCursor, defaultLimit, maxLimit) ==
    LET trimmedLimit == TrimSpace(rawLimit)
        parsedLimit == Atoi(trimmedLimit)
        trimmedCursor == TrimSpace(rawCursor)
        parsedCursor == Atoi(trimmedCursor)
    IN  IF trimmedLimit # << >>
           /\ (parsedLimit.err \/ parsedLimit.value < 1 \/ parsedLimit.value > maxLimit)
        THEN [limit |-> 0, cursor |-> 0, err |-> "limit must be an integer between 1 and max"]
        ELSE IF trimmedCursor # << >> /\ (parsedCursor.err \/ parsedCursor.value <= 0)
        THEN [limit |-> 0, cursor |-> 0, err |-> "cursor must be a positive integer"]
        ELSE [limit |-> IF trimmedLimit # << >> THEN parsedLimit.value ELSE defaultLimit,
              cursor |-> IF trimmedCursor # << >> THEN parsedCursor.value ELSE 0,
              err |-> ""]

\* what a timeline response carries: its status, whether it has a list of
\* events, whether the list is a page, and the limit and cursor of the page
TimelineResponse(code, items, paged, limit, cursor) ==
    [code |-> code, items |-> items, paged |-> paged, limit |-> limit, cursor |-> cursor]

TimelineError(code) == TimelineResponse(code, FALSE, FALSE, 0, 0)

\* HandleTimeline, with the database's answers as inputs: dbReady is
\* ensureAPIDBReady, queryOK is the query the handler runs
HandleTimeline(method, v1, incidentID, rawLimit, rawCursor, dbReady, queryOK) ==
    IF method = "OPTIONS" THEN TimelineError(StatusOK)
    ELSE IF method # "GET" THEN TimelineError(StatusMethodNotAllowed)
    ELSE IF ~dbReady THEN TimelineError(StatusInternalServerError)
    ELSE IF TrimSpace(incidentID) # << >>
    THEN IF queryOK THEN TimelineResponse(StatusOK, TRUE, FALSE, 500, 0)
         ELSE TimelineError(StatusInternalServerError)
    ELSE IF v1
    THEN LET page == parseCursorPageQuery(rawLimit, rawCursor,
                                          defaultCursorPageLimit, maxCursorPageLimit)
         IN  IF page.err # "" THEN TimelineError(StatusBadRequest)
             ELSE IF ~queryOK THEN TimelineError(StatusInternalServerError)
             ELSE TimelineResponse(StatusOK, TRUE, TRUE, page.limit, page.cursor)
    ELSE IF queryOK THEN TimelineResponse(StatusOK, TRUE, FALSE, 100, 0)
    ELSE TimelineError(StatusInternalServerError)

RawLimits ==
    {<< >>, <<" ">>, <<"0">>, <<"1">>, <<" ", "7", " ">>, <<"5", "0", "0">>,
     <<"5", "0", "1">>, <<"-", "1">>, <<"+", "5">>, <<"1", "x">>, <<"1", " ", "0">>}

RawCursors ==
    {<< >>, <<" ">>, <<"0">>, <<"4", "2">>, <<"-", "3">>, <<"x">>, <<"+">>}

IncidentIDs == {<< >>, <<" ">>, <<"i", "1">>}

TimelineReturns ==
    Returns("HandleTimeline",
            HandleTimeline(call.method, call.v1, call.incidentID, call.rawLimit,
                           call.rawCursor, call.dbReady, call.queryOK))

----------------------------------------------------------------------------
(* CORS: the origin a response allows *)

allowedCORS ==
    {<<"http", "://", "localhost">>,
     <<"http", "://", "localhost", ":", "3000">>,
     <<"http", "://", "localhost", ":", "3001">>}

DefaultOrigin == <<"http", "://", "localhost", ":", "3000">>

\* the position of the last "@" of an authority, 0 when it has none
LastAt(authority) ==
    IF \E i \in DOMAIN authority : authority[i] = "@"
    THEN CHOOSE i \in DOMAIN authority :
             authority[i] = "@" /\ \A j \in DOMAIN authority : authority[j] = "@" => j <= i
    ELSE 0

\* url.Parse(raw) then u.Hostname(): the host of scheme://[userinfo@]host[:port],
\* "" when raw has no authority; <<"invalid">> stands for a parse error
Hostname(raw) ==
    IF Len(raw) < 2 \/ raw[2] # "://" THEN ""
    ELSE LET authority == SubSeq(raw, 3, Len(raw))
             hostport == SubSeq(authority, LastAt(authority) + 1, Len(authority))
             colons == {i \in DOMAIN hostport : hostport[i] = ":"}
             host == IF colons = {} THEN hostport
                     ELSE SubSeq(hostport, 1, (CHOOSE i \in colons : \A j \in colons : i <= j) - 1)
         IN  IF \E i \in DOMAIN authority : authority[i] = Space THEN "invalid"
             ELSE IF Len(host) = 1 THEN host[1]
             ELSE IF Len(host) = 0 THEN ""
             ELSE "invalid"

isLocalOrigin_AnyParsed(raw) ==
    LET host == ToLowerChar(Hostname(raw))
    IN  host # "invalid"

isLocalOrigin(raw) ==
    LET host == ToLowerChar(Hostname(raw))
    IN  host = "localhost" \/ host = "127.0.0.1"

\* corsMiddleware: the value of Access-Control-Allow-Origin
corsMiddleware(rawOrigin, rawEnvOrigin) ==
    LET origin == TrimSpace(rawOrigin)
        envOrigin == TrimSpace(rawEnvOrigin)
        allowed == IF envOrigin # << >> /\ isLocalOrigin(envOrigin)
                   THEN allowedCORS \cup {envOrigin}
                   ELSE allowedCORS
    IN  IF origin # << >> /\ (origin \in allowed \/ isLocalOrigin(origin))
        THEN origin
        ELSE DefaultOrigin

Origins ==
    {<< >>,
     <<"*">>,
     <<"null">>,
     <<"localhost">>,
     <<"http", "://", "localhost">>,
     <<"http", "://", "localhost", ":", "3000">>,
     <<"http", "://", "localhost", ":", "9">>,
     <<"https", "://", "127.0.0.1", ":", "9">>,
     <<"http", "://", "LOCALHOST">>,
     <<"http", "://", "evil.com">>,
     <<"https", "://", "evil.com", ":", "3000">>,
     <<"http", "://", "localhost", "@", "evil.com">>,
     <<"http", "://", "localhost", ":", "3000", "@", "evil.com">>,
     <<"http", "://", "evil.com", "@", "localhost">>,
     <<"http", "://", "localhost.evil.com">>,
     <<"http", "://", "localhost", " ", "evil.com">>,
     <<"http", "://", "*">>}

\* values of FLOWFORGE_ALLOWED_ORIGIN
EnvOrigins ==
    {<< >>,
     <<"*">>,
     <<"http", "://", "localhost", ":", "9">>,
     <<"https", "://", "127.0.0.1", ":", "9">>,
     <<"http", "://", "evil.com">>,
     <<"https", "://", "evil.com", ":", "3000">>,
     <<"http", "://", "localhost", "@", "evil.com">>}

CorsReturns ==
    Returns("corsMiddleware", corsMiddleware(call.origin, call.envOrigin))

----------------------------------------------------------------------------
(* The rate limiter on its own: calls from more clients than it may hold *)

LimiterClients == {1, 2, 3}

\* a limiter built with small bounds: two requests a minute, two failures
\* block for longer than a minute, two entries at most, stale no sooner
\* than the block ends (as newRateLimiter has it), a prune every third call
BoundedLimiter == newRateLimiterWithBounds(2, 2, Minute + 1, 2, Minute + 1, 3)

\* what the callers of the limiter have seen of it: the last call and its
\* result, the clients that called, until when each client was told it is
\* blocked, each client's failed attempts since its last successful one, each
\* client's one-minute window with the requests allowed in it, and whether the
\* client's entry was dropped from the map during that window
NoLimiterCall ==
    [op |-> "", done |-> FALSE, ip |-> 0, out |-> FALSE, seen |-> {},
     blocks |-> [ip \in LimiterClients |-> 0],
     fails |-> [ip \in LimiterClients |-> 0],
     window |-> [ip \in LimiterClients |-> [start |-> 0 - Minute, granted |-> 0]],
     dropped |-> [ip \in LimiterClients |-> FALSE]]

\* the window of a client: it starts with the client's first call, and a new
\* one starts with a request or a failed attempt made a minute or more after
\* the start of the last
ClientWindow(w, t) ==
    IF t - w.start >= Minute THEN [start |-> t, granted |-> 0] ELSE w

limiterUnchanged ==
    <<apiKey, idemRecords, idemSlots, workerControl, currentState, lifecycleOverride,
      auditLog, req, last, issued, hist, supervisor, ledger, stateMem>>

LimiterReturns(op, ip, ok, lim) ==
    /\ limiter.opCount < MaxLimiterOps
    /\ limiter' = lim
    /\ call' = [op |-> op, done |-> TRUE, ip |-> ip, out |-> ok,
                seen |-> call.seen \cup {ip},
                blocks |-> IF op = "addAuthFailure" /\ ok
                           THEN [call.blocks EXCEPT ![ip] = now + limiter.blockDuration]
                           ELSE call.blocks,
                fails |-> CASE op = "addAuthFailure" ->
                                 [call.fails EXCEPT ![ip] = Min(@ + 1, limiter.authFailLimit)]
                            [] op = "clearAuthFailures" -> [call.fails EXCEPT ![ip] = 0]
                            [] OTHER -> call.fails,
                window |-> CASE ip \notin call.seen ->
                                  [call.window EXCEPT ![ip] =
                                      [start |-> now,
                                       granted |-> IF op = "allow" /\ ok THEN 1 ELSE 0]]
                             [] op = "allow" /\ now >= call.blocks[ip] ->
                                  [call.window EXCEPT ![ip] =
                                      LET w == ClientWindow(@, now)
                                      IN  IF ok THEN [w EXCEPT !.granted = Min(@ + 1, limiter.requestLimit + 1)]
                                          ELSE w]
                             [] op = "addAuthFailure" ->
                                  [call.window EXCEPT ![ip] = ClientWindow(@, now)]
                             [] OTHER -> call.window,
                dropped |-> [j \in LimiterClients |->
                               IF j \in call.seen \cup {ip}
                               THEN \/ j \notin DOMAIN lim.entries
                                    \/ /\ call.dropped[j]
                                       /\ ~(j = ip /\ op # "clearAuthFailures"
                                              /\ now - call.window[j].start >= Minute)
                               ELSE FALSE]]
    /\ UNCHANGED <<now, limiterUnchanged>>

AllowReturns(ip) ==
    LET a == allow(limiter, ip, now)
    IN  LimiterReturns("allow", ip, a.ok, a.lim)

AddAuthFailureReturns(ip) ==
    LET f == addAuthFailure(limiter, ip, now)
    IN  LimiterReturns("addAuthFailure", ip, f.ok, f.lim)

ClearAuthFailuresReturns(ip) ==
    LimiterReturns("clearAuthFailures", ip, TRUE, clearAuthFailures(limiter, ip, now))

LimiterTick ==
    /\ now < MaxLimiterTime
    /\ now' = now + 1
    /\ UNCHANGED <<limiter, call, limiterUnchanged>>

----------------------------------------------------------------------------
(* pruneLocked on its own, over maps of blocked and unblocked entries *)

\* the time of the prune
PruneTime == 4

\* an entry last seen at `seen`, blocked until `until` (0: not blocked)
PrunedEntry(seen, until) ==
    [windowStart |-> seen, requestCount |-> 1, authFailures |-> 0,
     blockedUntil |-> until, lastSeen |-> seen]

EntryChoices ==
    {PrunedEntry(seen, until) : seen \in {0, 2, 3}, until \in {0, PruneTime + 2}}

\* the maps over the clients, with any of them absent
LimiterMaps ==
    UNION {[ips -> EntryChoices] : ips \in SUBSET LimiterClients}

PruneReturns ==
    Returns("pruneLocked", pruneLocked(call.lim, call.t))

----------------------------------------------------------------------------
(* Signal-baseline evaluations running side by side *)

\* buildDecisionSignalBaselineSummary takes no lock: a request handler runs it
\* on its own goroutine, reading the traces, then the bucket's stored state,
\* then writing the state and the audit event, each a statement of its own
Evaluators == {1, 2}

IdleEvaluation == [pc |-> "idle", traces |-> {}, b |-> NoRow]

NoEvaluations ==
    [op |-> "evaluate", done |-> FALSE, begun |-> 0,
     evals |-> [e \in Evaluators |-> IdleEvaluation]]

raceUnchanged == <<controlPlane, supervisor, stateMem, guardrails, demo, report, observed>>

\* database.GetDecisionTraces and the grouping into buckets
EvalLoad(e) ==
    /\ call.evals[e].pc = "idle"
    /\ call.begun < MaxRaceEvaluations
    /\ LET traces == GetDecisionTraces(events, defaultDecisionSignalBaselineLimit)
       IN  call' = [call EXCEPT !.begun = @ + 1,
                                !.evals[e] = IF traces = {} THEN IdleEvaluation
                                             ELSE [pc |-> "loaded", traces |-> traces, b |-> NoRow]]
    /\ UNCHANGED <<raceUnchanged, events, baselineState>>

\* database.GetDecisionSignalBaselineState and the evaluation of the bucket
EvalRead(e, key) ==
    /\ call.evals[e].pc = "loaded"
    /\ \A k \in call.evals[e].traces : decisionSignalBucketKey(events[k]) = key
    /\ call' = [call EXCEPT !.evals[e].pc = "computed",
                            !.evals[e].b = evaluateBucket(events, call.evals[e].traces,
                                                          baselineState[key], guardrails)]
    /\ UNCHANGED <<raceUnchanged, events, baselineState>>

\* database.UpsertDecisionSignalBaselineState and emitSignalBaselineTransitionEvent
EvalWrite(e, key) ==
    /\ call.evals[e].pc = "computed"
    /\ LET b == call.evals[e].b
       IN  /\ baselineState' = [baselineState EXCEPT ![key] =
                                   [LatestTraceID |-> b.LatestTraceID,
                                    ConsecutiveBreach |-> b.ConsecutiveBreachCount,
                                    Status |-> b.Status]]
           /\ events' = events \o transitionEvents(events, key, b,
                           [PersistState |-> TRUE, EmitAuditTransitions |-> TRUE,
                            RequestID |-> "req"])
    /\ call' = [call EXCEPT !.evals[e] = IdleEvaluation]
    /\ UNCHANGED raceUnchanged

----------------------------------------------------------------------------
(* The ledger: incident writes and column encryption *)

MasterKeys == {"", "0123"}

\* secrets are redacted before anything is stored
sanitize(text) == IF text = "secret" THEN "<REDACTED>" ELSE text

\* encryption of one column under FLOWFORGE_MASTER_KEY
encryptColumn(text, masterKey) ==
    IF masterKey = "" THEN [err |-> TRUE, value |-> ""]
    ELSE [err |-> FALSE, value |-> <<"enc", masterKey, text>>]

\* the value stored for a designated column, or the failure of the write
sealColumn_PlaintextFallback(text, policy, masterKey) ==
    IF policy = "plaintext" \/ encryptColumn(text, masterKey).err
    THEN [err |-> FALSE, value |-> text]
    ELSE encryptColumn(text, masterKey)

sealColumn(text, policy, masterKey) ==
    IF policy = "plaintext" THEN [err |-> FALSE, value |-> text]
    ELSE encryptColumn(text, masterKey)

\* database.LogIncidentWithDecisionForIncident: the incidents table afterwards and the error
LogIncident(table, incident, policy, masterKey) ==
    LET command == sealColumn(sanitize(incident.command), policy, masterKey)
        pattern == sealColumn(sanitize(incident.pattern), policy, masterKey)
    IN  IF command.err THEN [err |-> "encrypt incident command", table |-> table]
        ELSE IF pattern.err THEN [err |-> "encrypt incident pattern", table |-> table]
        ELSE [err |-> "",
              table |-> Append(table, [command |-> command.value, pattern |-> pattern.value,
                                       exit_reason |-> incident.exit_reason])]

Incidents ==
    [command : {"worker", "secret"}, pattern : {"", "loop", "secret"},
     exit_reason : {"LOOP_DETECTED", "COMMAND_FAILURE"}]

\* incidents tables at the time of the write
IncidentTables ==
    {<< >>, <<[command |-> <<"enc", "0123", "worker">>, pattern |-> <<"enc", "0123", "loop">>,
               exit_reason |-> "LOOP_DETECTED"]>>}

LogIncidentReturns ==
    Returns("LogIncident", LogIncident(call.table, call.incident, call.policy, call.masterKey))

----------------------------------------------------------------------------
(* ProcessState.Args: the slice behind the snapshots *)

MaxArrays == 2

Readers == {1, 2}

ArgLists == {<<"a">>, <<"a", "b">>}

NoSnapshot == [taken |-> FALSE, state |-> [Status |-> "", Command |-> "", PID |-> 0,
                                           Lifecycle |-> ""], Args |-> 0]

\* append([]string(nil), args...): a fresh backing array with the same elements
InitStateMem ==
    stateMem = [heap |-> << <<"a", "b">> >>, Args |-> 1,
                snaps |-> [r \in Readers |-> NoSnapshot]]

\* the args a read of the current state shows
CurrentArgs == IF stateMem.Args = 0 THEN << >> ELSE stateMem.heap[stateMem.Args]

snapshotUnchanged ==
    <<now, apiKey, limiter, idemRecords, idemSlots, workerControl, lifecycleOverride,
      auditLog, req, last, issued, hist, supervisor, ledger, call>>

\* the run loop publishes the state of the child: UpdateState copies args
RunUpdateState(status, args) ==
    /\ Len(stateMem.heap) < MaxArrays
    /\ currentState' = UpdateState(lifecycleOverride, status, currentState.Command,
                                   currentState.PID)
    /\ stateMem' = [stateMem EXCEPT !.heap = Append(@, args), !.Args = Len(stateMem.heap) + 1]
    /\ UNCHANGED snapshotUnchanged

\* a reader calls GetState: the struct is copied, the slice header with it
ReadState(r) ==
    /\ stateMem' = [stateMem EXCEPT !.snaps[r] =
                       [taken |-> TRUE, state |-> GetState(currentState),
                        Args |-> stateMem.Args]]
    /\ UNCHANGED <<currentState, snapshotUnchanged>>

\* the reader assigns to a field of its snapshot
WriteSnapshotStatus(r, status) ==
    /\ stateMem.snaps[r].taken
    /\ stateMem' = [stateMem EXCEPT !.snaps[r].state.Status = status]
    /\ UNCHANGED <<currentState, snapshotUnchanged>>

\* the reader assigns to an element of its snapshot's Args
WriteSnapshotArg(r, i, v) ==
    /\ stateMem.snaps[r].taken
    /\ stateMem.snaps[r].Args # 0
    /\ i \in DOMAIN stateMem.heap[stateMem.snaps[r].Args]
    /\ stateMem' = [stateMem EXCEPT !.heap[stateMem.snaps[r].Args][i] = v]
    /\ UNCHANGED <<currentState, snapshotUnchanged>>

----------------------------------------------------------------------------
(* Specifications *)

InitComponents ==
    /\ supervisor = NewSupervisor(DefaultTree)
    /\ InitLedger
    /\ InitStateMem
    /\ call = NoCall

InitControlPlane ==
    /\ now = 0
    /\ limiter = newRateLimiter(120, 10, 10 * Minute)
    /\ idemRecords = EmptyMap
    /\ idemSlots = {}
    /\ workerControl = [phase |-> "RUNNING", operation |-> "", pid |-> 1, nextPid |-> 2,
                        restarts |-> << >>, lastDone |-> "", stopStartedAt |-> 0]
    /\ currentState = UpdateState("", "RUNNING", "cmd", 1)
    /\ lifecycleOverride = ""
    /\ auditLog = << >>
    /\ req = [i \in Conns |-> IdleRequest]
    /\ last = [req |-> IdleRequest, resp |-> NoResponse]
    /\ issued = 0
    /\ hist = NoHist

InitCommon == InitControlPlane /\ InitComponents

StepsToDecision ==
    \/ \E i \in Conns : WithSecurity(i)
    \/ \E i \in Conns : HandlerEntry(i)
    \/ \E i \in Conns : BeginIdempotentMutation(i)
    \/ \E i \in Conns : RequestLifecycle(i)

BackgroundSteps ==
    \/ \E ok \in BOOLEAN : SupervisorStopReturns(ok)
    \/ SupervisorStart
    \/ ChildStarted
    \/ ChildExited

Steps ==
    \/ StepsToDecision
    \/ \E i \in Conns : FinishMutation(i)
    \/ BackgroundSteps

\* Spec: authenticated operators send kill/restart mutations carrying an
\* Idempotency-Key, with two different bodies, over two connections.
ArriveKeyed ==
    /\ issued < MaxKeyedRequests
    /\ \E i \in Conns, route \in {"kill", "restart"}, body \in {"b1", "b2"} :
          Arrive(i, route, "POST", "valid", 1, "k1", body, FALSE)

Init == InitCommon /\ apiKey = "secret"

Next == ArriveKeyed \/ Steps \/ Tick(MaxKeyedTime)

Spec == Init /\ [][Next]_vars

\* SpecBudget: authenticated operators send kill/restart mutations without an
\* Idempotency-Key, often enough and over enough time to exhaust the budget.
ArriveUnkeyed ==
    /\ issued < MaxBudgetRequests
    /\ \E i \in Conns, route \in {"kill", "restart"} :
          Arrive(i, route, "POST", "valid", 1, NoKey, "b1", FALSE)

NextBudget == ArriveUnkeyed \/ Steps \/ Tick(MaxTime)

SpecBudget == Init /\ [][NextBudget]_vars

\* SpecAuth: clients with and without credentials send every method to the
\* kill and restart routes, with FLOWFORGE_API_KEY either set or unset.  The
\* requests come within one limiter window, so the clock stands still.
Methods == {"POST", "PUT", "PATCH", "DELETE", "GET", "OPTIONS"}

Tokens == {"none", "wrong", "valid"}

ArriveAuth ==
    /\ issued < MaxMethodRequests
    /\ \E i \in Conns, route \in {"kill", "restart"}, method \in Methods, token \in Tokens :
          Arrive(i, route, method, token, 1, NoKey, "b1", FALSE)

InitAuth == InitCommon /\ apiKey \in {"", "secret"}

NextAuth == ArriveAuth \/ Steps

SpecAuth == InitAuth /\ [][NextAuth]_vars

\* SpecBrute: one client address sends kill requests without the right bearer
\* token, one after the other, to a server whose key is set.
ArriveBrute ==
    /\ issued < MaxAuthRequests
    /\ \A j \in Conns : ~InFlight(j)
    /\ \E i \in Conns, token \in {"none", "wrong"} :
          Arrive(i, "kill", "POST", token, 1, NoKey, "b1", FALSE)

NextBrute ==
    \/ ArriveBrute
    \/ \E i \in Conns : WithSecurity(i)
    \/ \E i \in Conns : HandlerEntry(i)
    \/ Tick(MaxBruteTime)

SpecBrute == Init /\ [][NextBrute]_vars

\* FairSpecLife: authenticated kill and restart requests; a Supervisor.Stop that
\* was started returns (its wait is bounded by the stop timeout).
ArriveLife ==
    /\ issued < MaxLifeRequests
    /\ \E i \in Conns, route \in {"kill", "restart"} :
          Arrive(i, route, "POST", "valid", 1, NoKey, "b1", FALSE)

NextLife == ArriveLife \/ Steps \/ Tick(MaxLifeTime)

FairSpecLife ==
    /\ Init
    /\ [][NextLife]_vars
    /\ WF_vars(\E ok \in BOOLEAN : SupervisorStopReturns(ok))

\* The run loop publishes telemetry of the running child through
\* state.UpdateState: the plain status, a watchdog alert, or a detected loop.
MonitorStatuses == {"RUNNING", "WATCHDOG_ALERT", "LOOP_DETECTED"}

MonitorUpdateState(status) ==
    /\ workerControl.phase = "RUNNING"
    /\ currentState.Lifecycle = "RUNNING"
    /\ currentState' = UpdateState(lifecycleOverride, status, currentState.Command, currentState.PID)
    /\ currentState' # currentState
    /\ UNCHANGED <<components, now, apiKey, limiter, idemRecords, idemSlots, workerControl,
                   lifecycleOverride, auditLog, req, last, issued, hist>>

\* SpecPhases: authenticated kill and restart requests while the run loop
\* publishes the child's telemetry.
NextPhases ==
    \/ ArriveLife
    \/ Steps
    \/ \E status \in MonitorStatuses : MonitorUpdateState(status)
    \/ Tick(MaxLifeTime)

SpecPhases == Init /\ [][NextPhases]_vars

\* SpecSupervisor: Stop is called, once or repeatedly, on a supervisor whose
\* tree has any shape; processes may exit on their own at any moment.
InitSupervisor ==
    /\ InitControlPlane
    /\ apiKey = "secret"
    /\ \E t \in Trees : supervisor = NewSupervisor(t)
    /\ InitLedger
    /\ InitStateMem
    /\ call = NoCall

NextSupervisor ==
    \/ SupervisorStopGraceful
    \/ SupervisorStopEscalate
    \/ SupervisorStopDone
    \/ SupervisorStopAgain
    \/ \E p \in Procs : ProcessExits(p)

SpecSupervisor == InitSupervisor /\ [][NextSupervisor]_vars

\* SpecLedgerFault: authenticated kill and restart requests against a ledger
\* whose INSERT may fail (database locked, closed or full).
NextLedgerFault ==
    \/ ArriveLife
    \/ StepsToDecision
    \/ \E i \in Conns, auditOk \in BOOLEAN : FinishMutationWith(i, auditOk)
    \/ BackgroundSteps
    \/ Tick(MaxLifeTime)

SpecLedgerFault == Init /\ [][NextLedgerFault]_vars

----------------------------------------------------------------------------
(* Properties of idempotent mutations (Spec) *)

LastDone == last.req.pc = "done"

LastSlot == IdemSlot(Scope(last.req.route), last.req.key)

\* the answered request reused the key of an earlier, already answered mutation
LastReusesKey ==
    /\ LastDone
    /\ last.req.authed
    /\ last.req.key # NoKey
    /\ LastSlot \in DOMAIN hist.first
    /\ hist.first[LastSlot].rid # last.req.rid

LastSameFingerprint == hist.first[LastSlot].fingerprint = requestFingerprint(last.req.body)

\* C1: a kill/restart request that repeats the Idempotency-Key and the body of
\* an earlier request to the same scope gets exactly the status code and body
\* of the first one's response and does not reach the lifecycle manager.
C1_ReplayReturnsFirstResponse ==
    (LastReusesKey /\ LastSameFingerprint) =>
        /\ last.resp.status = hist.first[LastSlot].status
        /\ last.resp.body = hist.first[LastSlot].body
        /\ ~last.req.acted

\* a replayed problem document: the request id inside the body is the first request's
C1_Witness ==
    /\ LastReusesKey
    /\ LastSameFingerprint
    /\ last.resp.body.kind = "problem"
    /\ last.resp.body.rid = hist.first[LastSlot].rid

\* C2: a mutation reusing a recorded Idempotency-Key with a different request
\* fingerprint is answered 409 with problem type idempotency-conflict, and the
\* lifecycle action is not executed.
C2_ConflictOnDifferentFingerprint ==
    (LastReusesKey /\ ~LastSameFingerprint) =>
        /\ last.resp.status = StatusConflict
        /\ last.resp.body.kind = "problem"
        /\ last.resp.body.type = "idempotency-conflict"
        /\ ~last.req.acted

C2_Witness ==
    /\ LastReusesKey
    /\ ~LastSameFingerprint
    /\ last.resp.status = StatusConflict

\* C3: of the mutations in flight at the same time with the same (scope, key
\* hash), exactly one reaches the lifecycle manager; each other one is answered
\* with a replay of the first one's response or with IN_PROGRESS.
C3_OneExecutionPerKey ==
    /\ \A slot \in DOMAIN hist.execs : hist.execs[slot] <= 1
    /\ \A slot \in DOMAIN hist.first : slot \in DOMAIN hist.execs /\ hist.execs[slot] = 1
    /\ (LastReusesKey /\ LastSameFingerprint /\ last.req.overlap) =>
          \/ last.resp = Response(hist.first[LastSlot].status, 0, hist.first[LastSlot].body)
          \/ last.resp.body.dstatus = "IN_PROGRESS"

\* a mutation that arrived while another one with its key was in flight has been answered
C3_Witness ==
    /\ LastReusesKey
    /\ LastSameFingerprint
    /\ last.req.overlap
    /\ hist.execs[LastSlot] = 1

----------------------------------------------------------------------------
(* Properties of the lifecycle manager and the restart budget (SpecBudget) *)

\* connection i receives its LifecycleDecision in this step
Decides(i) == req[i].pc = "lifecycle" /\ req'[i].pc = "finish"

OperationOf(route) == IF route = "kill" THEN "kill" ELSE "restart"

\* the request duplicates an action in flight, or a kill already completed
Duplicates(i) ==
    \/ workerControl.operation = OperationOf(req[i].route)
    \/ /\ req[i].route = "kill"
       /\ workerControl.operation = ""
       /\ workerControl.phase = "STOPPED"
       /\ workerControl.lastDone = "kill"

\* C4: a lifecycle request duplicating an action in flight or already completed
\* returns IN_PROGRESS or REPLAYED with accepted_new = false, and leaves the
\* manager and the ProcessState exactly as they were: no new work starts.
C4_DuplicateStartsNoWork ==
    [][\A i \in Conns :
          Decides(i) =>
            /\ Duplicates(i) => req'[i].decision.status \in {"IN_PROGRESS", "REPLAYED"}
            /\ req'[i].decision.status \in {"IN_PROGRESS", "REPLAYED"} =>
                  /\ ~req'[i].decision.acceptedNew
                  /\ workerControl' = workerControl
                  /\ currentState' = currentState
                  /\ lifecycleOverride' = lifecycleOverride]_vars

\* a restart request was answered IN_PROGRESS while the one accepted restart was under way
C4_Witness ==
    /\ LastDone
    /\ last.req.route = "restart"
    /\ last.req.decision.status = "IN_PROGRESS"
    /\ Len(hist.accepts) = 1

\* number of accepted restarts in the window of length W ending at time t
AcceptedInWindow(t) ==
    Cardinality({k \in 1..Len(hist.accepts) :
                    hist.accepts[k] <= t /\ t - hist.accepts[k] < RestartBudgetWindow})

BudgetNeverExceeded == \A t \in 0..MaxTime + 1 : AcceptedInWindow(t) <= RestartBudgetMax

C6_BudgetDenialCarriesRetryAfter ==
    (LastDone /\ last.req.route = "restart" /\ last.req.decision.err = "budget") =>
        /\ last.resp.status = StatusTooManyRequests
        /\ last.resp.body.type = "restart-budget-exceeded"
        /\ last.resp.retryAfter = last.resp.body.retry
        /\ last.resp.retryAfter = last.req.expectRetry
        /\ 0 < last.resp.retryAfter
        /\ last.resp.retryAfter <= RestartBudgetWindow

\* a denial issued some time after the oldest accepted restart: less than W is left
C6_Witness ==
    /\ LastDone
    /\ last.req.decision.err = "budget"
    /\ last.resp.retryAfter > 0
    /\ last.resp.retryAfter < RestartBudgetWindow

----------------------------------------------------------------------------
(* Properties of bearer authentication (SpecAuth, SpecBrute) *)

\* a request that has passed requireAuth and is at or past the lifecycle request
PastAuth(i) == req[i].pc \in {"begin", "lifecycle", "finish"}

\* C7: with FLOWFORGE_API_KEY set, only a request presenting the matching
\* bearer token gets as far as the lifecycle request; a kill or restart request
\* (POST) with a missing or wrong token is answered 401, 403 or 429 and has
\* caused no lifecycle action.
C7_OnlyMatchingTokenActs ==
    apiKey # "" =>
        /\ \A i \in Conns : (PastAuth(i) \/ req[i].acted) => req[i].token = "valid"
        /\ (LastDone /\ last.req.token # "valid") =>
              /\ ~last.req.acted
              /\ last.req.method = "POST" =>
                    last.resp.status \in {StatusUnauthorized, StatusForbidden, StatusTooManyRequests}

C7_Witness ==
    /\ apiKey # ""
    /\ LastDone
    /\ last.req.token = "wrong"
    /\ last.req.method = "POST"
    /\ last.resp.status = StatusForbidden
    /\ last.resp.body.detail = MsgInvalidKey
    /\ auditLog # << >>

C9_TwelfthIsAuthRateLimited ==
    (apiKey # "" /\ LastDone /\ last.req.token = "wrong" /\ last.req.streak >= 11) =>
        /\ last.resp.status = StatusTooManyRequests
        /\ last.resp.body.type = "auth-rate-limited"

----------------------------------------------------------------------------
(* Properties of the lifecycle phases (FairSpecLife) *)

Stopping == currentState.Lifecycle = "STOPPING"

----------------------------------------------------------------------------
(* Properties of the published lifecycle (SpecPhases) *)

LifecycleEdges ==
    {<<"STOPPED", "STARTING">>, <<"STARTING", "RUNNING">>, <<"RUNNING", "STOPPING">>,
     <<"STOPPING", "STOPPED">>, <<"RUNNING", "FAILED">>}

\* C11 as stated: every change of the published worker lifecycle follows one
\* of the edges STOPPED->STARTING, STARTING->RUNNING, RUNNING->STOPPING,
\* STOPPING->STOPPED, RUNNING->FAILED.
C11_OnlyListedEdges ==
    [][currentState'.Lifecycle # currentState.Lifecycle =>
          <<currentState.Lifecycle, currentState'.Lifecycle>> \in LifecycleEdges]_vars

----------------------------------------------------------------------------
(* Properties of the supervisor (SpecSupervisor) *)

C13_RepeatedStopIsNoOp ==
    [][(supervisor.pc = "stopped" /\ supervisor'.calls # supervisor.calls) =>
          /\ supervisor'.ret = "ok"
          /\ supervisor'.signals = supervisor.signals
          /\ supervisor' = [supervisor EXCEPT !.ret = "ok", !.calls = supervisor'.calls]]_vars

C13_Witness ==
    /\ supervisor.pc = "stopped"
    /\ supervisor.calls = 2
    /\ supervisor.ret = "ok"
    /\ Len(supervisor.signals) = 3

----------------------------------------------------------------------------
(* Properties of mutations under ledger faults (SpecLedgerFault) *)

\* the lifecycle an accepted kill or restart started from
PhaseBefore(dec) == IF dec.lifecycle = "STARTING" THEN "STOPPED" ELSE "RUNNING"

\* C15 as stated: when the audit event of an accepted kill or restart could
\* not be appended, the reply is 500 and the lifecycle is back to what it was
\* before the request.
C15_AuditFailureRollsBack ==
    [][\A i \in Conns :
          (/\ req[i].pc = "finish"
           /\ req'[i].pc = "idle"
           /\ req[i].decision.acceptedNew
           /\ last'.req.outcome = "audit_failed") =>
              /\ last'.resp.status = StatusInternalServerError
              /\ workerControl'.phase = PhaseBefore(req[i].decision)
              /\ currentState'.Lifecycle = PhaseBefore(req[i].decision)]_vars

\* SpecLedger: writers append rows to the events table while UPDATE and DELETE
\* statements are aimed at the rows already there.
NextLedger ==
    \/ \E row \in LedgerRows : AppendEvent(row)
    \/ \E op \in {"UPDATE", "DELETE"}, id \in 1..MaxLedgerEvents, row \in LedgerRows :
          AlterEvent(op, id, row)

SpecLedger == Init /\ [][NextLedger]_vars

\* C14: once an event is in the ledger no UPDATE or DELETE of it succeeds: every
\* step leaves each persisted event in place with its content, so the table only
\* grows, and every UPDATE or DELETE statement returns an error.
C14_EventsAreAppendOnly ==
    [][/\ Len(events') >= Len(events)
       /\ \A id \in DOMAIN events : events'[id] = events[id]
       /\ report'.op \in {"UPDATE", "DELETE"} /\ report' # report => report'.err]_vars

C14_Witness ==
    /\ report.op \in {"UPDATE", "DELETE"}
    /\ report.err
    /\ Len(events) >= 2
    /\ events[report.id] = report.before

\* SpecBaseline: decisions are recorded while the signal baseline is evaluated by
\* GET requests with and without a limit and by /metrics scrapes, under each
\* setting of the guardrails.
MinSamplesChoices == {1, 2}
RequiredStreakChoices == {1, 2}

InitBaseline ==
    /\ InitControlPlane
    /\ apiKey = "secret"
    /\ supervisor = NewSupervisor(DefaultTree)
    /\ events = << >>
    /\ baselineState = [key \in BucketKeys |-> NoRow]
    /\ \E m \in MinSamplesChoices, r \in RequiredStreakChoices :
          guardrails = [MinBaselineSamples |-> m, RequiredStreak |-> r]
    /\ demo = NoDemo
    /\ report = NoReport
    /\ observed = [key \in BucketKeys |-> << >>]
    /\ call = NoCall
    /\ InitStateMem

NextBaseline ==
    \/ \E bucket \in BucketKeys, cpu \in Scores : LogDecisionTrace(bucket, cpu)
    \/ \E limit \in Limits : HandleDecisionSignalBaseline(limit)
    \/ decisionSignalBaselinePrometheus

SpecBaseline == InitBaseline /\ [][NextBaseline]_vars

AuditAppended(title, key) ==
    \E id \in (Len(events) + 1)..Len(events') :
        events'[id].kind = "audit" /\ events'[id].title = title /\ events'[id].bucket = key

\* C16: every change of a bucket's persisted status into at_risk appends a
\* SIGNAL_BASELINE_AT_RISK audit event in the same step, and every change out of
\* at_risk appends a SIGNAL_BASELINE_RECOVERED audit event.
C16_AtRiskChangesAreAudited ==
    [][\A key \in BucketKeys :
          /\ (/\ baselineState[key] # NoRow
              /\ baselineState[key].Status # signalBaselineStatusAtRisk
              /\ baselineState'[key].Status = signalBaselineStatusAtRisk)
                 => AuditAppended("SIGNAL_BASELINE_AT_RISK", key)
          /\ (/\ baselineState[key].Status = signalBaselineStatusAtRisk
              /\ baselineState'[key].Status # signalBaselineStatusAtRisk)
                 => AuditAppended("SIGNAL_BASELINE_RECOVERED", key)]_vars

\* the number of distinct latest traces in the unbroken run of breaching
\* evaluations that ends with the most recent evaluation of the bucket
ObservedStreak(key) ==
    LET obs == observed[key]
        run == {i \in DOMAIN obs : \A j \in i..Len(obs) : obs[j].breach}
    IN  Cardinality({obs[i].id : i \in run})

\* C17: a bucket with enough history and at least one drifting signal is reported
\* pending while breaches were observed on fewer than required_consecutive_breaches
\* consecutive distinct latest traces, and at_risk from the evaluation that
\* reaches that count.
C17_PendingUntilStreakReached ==
    report.op = "evaluate" =>
        \A key \in report.keys :
            LET b == report.buckets[key]
            IN  (b.BreachSignalCount > 0 /\ ~b.InsufficientHistory) =>
                    b.Status = IF ObservedStreak(key) >= guardrails.RequiredStreak
                               THEN signalBaselineStatusAtRisk
                               ELSE signalBaselineStatusPending

C17_Witness ==
    /\ report.op = "evaluate"
    /\ guardrails.RequiredStreak = 2
    /\ \E key \in report.keys :
          /\ report.buckets[key].Status = signalBaselineStatusAtRisk
          /\ report.buckets[key].previous.Status = signalBaselineStatusPending
          /\ ObservedStreak(key) = 2
          /\ Len(observed[key]) >= 3

\* C18: an evaluation that finds the persisted latest_trace_id still the latest
\* of the bucket reports the persisted status and streak and emits no audit event.
C18_SameLatestIsNoOp ==
    report.op = "evaluate" =>
        \A key \in report.keys :
            LET b == report.buckets[key]
            IN  (b.hasPrevious /\ b.previous.LatestTraceID = b.LatestTraceID) =>
                    /\ b.Status = b.previous.Status
                    /\ b.ConsecutiveBreachCount = b.previous.ConsecutiveBreach
                    /\ report.emitted[key] = << >>

\* C19: a bucket that has fewer than min_baseline_samples traces besides its
\* latest one is reported insufficient_history.
C19_ThinBaselineIsInsufficient ==
    report.op = "evaluate" =>
        \A key \in report.keys :
            LET b == report.buckets[key]
            IN  b.SampleCount - 1 < guardrails.MinBaselineSamples =>
                    b.Status = signalBaselineStatusInsufficientHistory

\* SpecDemo: demo runs one after the other, each ledger write succeeding or failing.
NextDemo == runDemo

SpecDemo == Init /\ [][NextDemo]_vars

\* C20: every AUTO_KILL audit event in the ledger is preceded by the DecisionTrace
\* of the same run (the trace of the process the event is about).
C20_TraceBeforeAudit ==
    \A id \in DOMAIN events :
        (events[id].kind = "audit" /\ events[id].title = "AUTO_KILL") =>
            \E j \in 1..(id - 1) :
                events[j].kind = "decision" /\ events[j].pid = events[id].pid

\* SpecDecider: the threshold decider is applied to one telemetry sample.
InitDecider ==
    /\ InitControlPlane
    /\ apiKey = "secret"
    /\ supervisor = NewSupervisor(DefaultTree)
    /\ InitLedger
    /\ InitStateMem
    /\ \E t \in Telemetries, p \in Policies :
          call = [op |-> "Evaluate", done |-> FALSE, telemetry |-> t, policy |-> p,
                  out |-> [Action |-> "", Reason |-> ""]]

NextDecider == DeciderEvaluate

SpecDecider == InitDecider /\ [][NextDecider]_vars

\* C21: when progress_like is true or raw_diversity >= 0.85 the decider does not
\* return KILL, whatever CPU load, log repetition and log entropy are.
C21_GuardNeverKills ==
    (/\ call.op = "Evaluate"
     /\ call.done
     /\ (call.telemetry.ProgressLike \/ call.telemetry.RawDiversity >= RawDiversityGuard))
        => call.out.Action # ActionKill

C21_Witness ==
    /\ call.op = "Evaluate"
    /\ call.done
    /\ ~call.telemetry.ProgressLike
    /\ call.telemetry.RawDiversity = RawDiversityGuard
    /\ cpuBreach(call.telemetry, call.policy)
    /\ logBreach(call.telemetry, call.policy)
    /\ call.out.Action = ActionAlert

\* SpecDigest: the replay digest of two inputs drawn independently.
InitDigest ==
    /\ InitControlPlane
    /\ apiKey = "secret"
    /\ supervisor = NewSupervisor(DefaultTree)
    /\ InitLedger
    /\ InitStateMem
    /\ \E a \in DigestInputs, b \in DigestInputs :
          call = [op |-> "DecisionReplayDigest", done |-> FALSE, a |-> a, b |-> b,
                  out |-> <<NoDigest, NoDigest>>]

NextDigest == DigestBoth

SpecDigest == InitDigest /\ [][NextDigest]_vars

\* s is core with blanks before and after it
Padded(str, core) ==
    \E i \in 0..Len(str), j \in 0..Len(str) :
        /\ i <= j
        /\ SubSeq(str, i + 1, j) = core
        /\ \A k \in 1..i : str[k] = Space
        /\ \A k \in (j + 1)..Len(str) : str[k] = Space

Cores(str) == {SubSeq(str, i + 1, j) : i \in 0..Len(str), j \in 0..Len(str)}

SameUpToSpace(s, t) == \E core \in Cores(s) : Padded(s, core) /\ Padded(t, core)

SameLetters(s, t) ==
    /\ Len(s) = Len(t)
    /\ \A i \in DOMAIN s :
          \/ s[i] = t[i]
          \/ \E l \in LowerRuns : {s[i], t[i]} = {l, upperRun[l]}

SameUpToSpaceAndCase(s, t) ==
    \E cs \in Cores(s), ct \in Cores(t) :
        Padded(s, cs) /\ Padded(t, ct) /\ SameLetters(cs, ct)

\* rounding to six decimals as the canonicalization rules give it: halves to even
RoundHalfEven(v) ==
    LET a == IF v >= 0 THEN v ELSE 0 - v
        q == a \div 10
        r == a % 10
        m == IF r > 5 \/ (r = 5 /\ q % 2 = 1) THEN q + 1 ELSE q
    IN  IF v >= 0 THEN m ELSE 0 - m

EquivalentInputs(a, b) ==
    /\ SameUpToSpace(a.DecisionEngine, b.DecisionEngine)
    /\ SameUpToSpace(a.EngineVersion, b.EngineVersion)
    /\ SameUpToSpace(a.DecisionContract, b.DecisionContract)
    /\ SameUpToSpace(a.Reason, b.Reason)
    /\ SameUpToSpaceAndCase(a.RolloutMode, b.RolloutMode)
    /\ SameUpToSpaceAndCase(a.Decision, b.Decision)
    /\ RoundHalfEven(a.CPUScore) = RoundHalfEven(b.CPUScore)
    /\ RoundHalfEven(a.EntropyScore) = RoundHalfEven(b.EntropyScore)
    /\ RoundHalfEven(a.ConfidenceScore) = RoundHalfEven(b.ConfidenceScore)

\* C22: two inputs that differ only in blanks around string fields, in the letter
\* case of decision or rollout_mode, or in score digits that round to the same
\* six-decimal value have the same replay digest.
C22_DigestStable ==
    (call.op = "DecisionReplayDigest" /\ call.done /\ EquivalentInputs(call.a, call.b))
        => call.out[1] = call.out[2]

\* SpecReplay: one replay verification request for a stored (or absent) trace.
InitReplay ==
    /\ InitControlPlane
    /\ apiKey = "secret"
    /\ supervisor = NewSupervisor(DefaultTree)
    /\ InitLedger
    /\ InitStateMem
    /\ \E found \in BOOLEAN, trace \in ReplayTraces, strict \in BOOLEAN :
          call = [op |-> "HandleDecisionReplay", done |-> FALSE, found |-> found,
                  trace |-> trace, strict |-> strict,
                  out |-> [code |-> 0, replay_status |-> "", replayable |-> FALSE]]

NextReplay == DecisionReplayReturns

SpecReplay == InitReplay /\ [][NextReplay]_vars

KnownDecisions == {<<"CONTINUE">>, <<"ALERT">>, <<"KILL">>, <<"RESTART">>}

\* what stands between the blanks of a string
CoreOf(str) == CHOOSE core \in Cores(str) :
                  /\ Padded(str, core)
                  /\ core = << >> \/ (core[1] # Space /\ core[Len(core)] # Space)

\* C23: a trace whose decision is a non-empty string outside CONTINUE, ALERT,
\* KILL, RESTART is reported NOT_REPLAYABLE by replay verification.
C23_UnknownDecisionUnreplayable ==
    (/\ call.op = "HandleDecisionReplay"
     /\ call.done
     /\ call.found
     /\ CoreOf(call.trace.in.Decision) # << >>
     /\ \A known \in KnownDecisions : ~SameLetters(CoreOf(call.trace.in.Decision), known))
        => call.out.replay_status = ReplayStatusUnreplayable

\* C24: with strict=true the replay endpoint answers 409 whenever the
\* verification status of the trace is not MATCH.
C24_StrictNonMatchIs409 ==
    (/\ call.op = "HandleDecisionReplay"
     /\ call.done
     /\ call.found
     /\ call.strict
     /\ call.out.replay_status # ReplayStatusMatch)
        => call.out.code = StatusConflict

\* SpecIncident: one incident write, with and without a master key, under either
\* encryption policy.
InitIncident ==
    /\ InitControlPlane
    /\ apiKey = "secret"
    /\ supervisor = NewSupervisor(DefaultTree)
    /\ InitLedger
    /\ InitStateMem
    /\ \E table \in IncidentTables, incident \in Incidents,
          policy \in {"encrypt", "plaintext"}, masterKey \in MasterKeys :
          call = [op |-> "LogIncident", done |-> FALSE, table |-> table,
                  incident |-> incident, policy |-> policy, masterKey |-> masterKey,
                  out |-> [err |-> "", table |-> table]]

NextIncident == LogIncidentReturns

SpecIncident == InitIncident /\ [][NextIncident]_vars

NextSnapshot ==
    \/ \E status \in MonitorStatuses, args \in ArgLists : RunUpdateState(status, args)
    \/ \E r \in Readers : ReadState(r)
    \/ \E r \in Readers : WriteSnapshotStatus(r, "edited")
    \/ \E r \in Readers, i \in 1..2 : WriteSnapshotArg(r, i, "edited")

SpecSnapshot == Init /\ [][NextSnapshot]_vars

\* C26: a snapshot is a deep copy: a step that is not an update of ProcessState
\* by its writer (a write to a snapshot, to its fields or to the elements of its
\* args) leaves what a read of the current state returns as it was.
C26_SnapshotIsDeepCopy ==
    [][(currentState' = currentState /\ stateMem'.Args = stateMem.Args)
          => CurrentArgs' = CurrentArgs]_vars

\* SpecTimeline: one timeline request, over the spellings of limit and cursor.
InitTimeline ==
    /\ InitControlPlane
    /\ apiKey = "secret"
    /\ supervisor = NewSupervisor(DefaultTree)
    /\ InitLedger
    /\ InitStateMem
    /\ \E method \in {"GET", "POST", "OPTIONS"}, v1 \in BOOLEAN,
          incidentID \in IncidentIDs, rawLimit \in RawLimits,
          rawCursor \in RawCursors, dbReady \in BOOLEAN, queryOK \in BOOLEAN :
          call = [op |-> "HandleTimeline", done |-> FALSE, method |-> method,
                  v1 |-> v1, incidentID |-> incidentID, rawLimit |-> rawLimit,
                  rawCursor |-> rawCursor, dbReady |-> dbReady, queryOK |-> queryOK,
                  out |-> TimelineError(0)]

NextTimeline == TimelineReturns

SpecTimeline == InitTimeline /\ [][NextTimeline]_vars

\* a parameter is given when its value is not blank
Given(raw) == \E i \in DOMAIN raw : raw[i] # Space

\* the integers a parameter's text denotes: its digits, read in base ten
Denotes(raw, n) ==
    LET text == SelectSeq(raw, LAMBDA ch : ch # Space)
        body == IF text # << >> /\ Head(text) \in {"+", "-"} THEN Tail(text) ELSE text
        negative == text # << >> /\ Head(text) = "-"
        contiguous == \A i, j \in DOMAIN raw :
                          (i < j /\ raw[i] # Space /\ raw[j] # Space)
                              => \A k \in i..j : raw[k] # Space
    IN  /\ contiguous
        /\ body # << >>
        /\ \A i \in DOMAIN body : IsDigit(body[i])
        /\ n = (IF negative THEN -1 ELSE 1) * ParseUint(body, 0)

BadPageQuery ==
    \/ Given(call.rawLimit)
         /\ ~\E n \in 1..maxCursorPageLimit : Denotes(call.rawLimit, n)
    \/ Given(call.rawCursor)
         /\ ~\E n \in 1..999 : Denotes(call.rawCursor, n)

CursorPaginatedRead ==
    /\ call.op = "HandleTimeline"
    /\ call.done
    /\ call.method = "GET"
    /\ call.v1
    /\ ~Given(call.incidentID)
    /\ call.dbReady

\* C27: a cursor-paginated /v1 read whose limit is given and is not an integer
\* in [1, 500], or whose cursor is given and is not an integer > 0, is answered
\* 400 with no items; any other is accepted, with limit 100 when none is given.
C27_BadPageQueryIs400 ==
    CursorPaginatedRead =>
        IF BadPageQuery
        THEN call.out.code = StatusBadRequest /\ ~call.out.items
        ELSE /\ call.out.code # StatusBadRequest
             /\ call.queryOK =>
                  /\ call.out.code = StatusOK
                  /\ call.out.paged
                  /\ ~Given(call.rawLimit) => call.out.limit = defaultCursorPageLimit
                  /\ Given(call.rawLimit) => Denotes(call.rawLimit, call.out.limit)

C27_Witness ==
    /\ CursorPaginatedRead
    /\ call.rawLimit = <<"5", "0", "0">>
    /\ call.rawCursor = <<"0">>
    /\ call.out.code = StatusBadRequest
    /\ ~call.out.items

\* SpecCors: one response, over request origins and configured overrides.
InitCors ==
    /\ InitControlPlane
    /\ apiKey = "secret"
    /\ supervisor = NewSupervisor(DefaultTree)
    /\ InitLedger
    /\ InitStateMem
    /\ \E origin \in Origins, envOrigin \in EnvOrigins :
          call = [op |-> "corsMiddleware", done |-> FALSE, origin |-> origin,
                  envOrigin |-> envOrigin, out |-> << >>]

NextCors == CorsReturns

SpecCors == InitCors /\ [][NextCors]_vars

\* the origins whose host is localhost or 127.0.0.1, listed by hand
LocalOrigins ==
    {<<"http", "://", "localhost">>,
     <<"http", "://", "localhost", ":", "3000">>,
     <<"http", "://", "localhost", ":", "9">>,
     <<"https", "://", "127.0.0.1", ":", "9">>,
     <<"http", "://", "LOCALHOST">>,
     <<"http", "://", "evil.com", "@", "localhost">>}

\* the local allowlist of a deployment: the local origins, and the configured
\* override when it is a local origin
OnLocalAllowlist(origin, envOrigin) ==
    \/ origin \in LocalOrigins
    \/ origin = envOrigin /\ envOrigin \in LocalOrigins

\* C28: Access-Control-Allow-Origin is never "*": it is the request's origin
\* when that origin is on the local allowlist, and the fixed local default for
\* every other origin.
C28_AllowOriginIsLocal ==
    (call.op = "corsMiddleware" /\ call.done) =>
        /\ call.out # <<"*">>
        /\ \A i \in DOMAIN call.out : call.out[i] # "*"
        /\ IF OnLocalAllowlist(call.origin, call.envOrigin)
           THEN call.out = call.origin
           ELSE call.out = DefaultOrigin

C28_Witness ==
    /\ call.op = "corsMiddleware"
    /\ call.done
    /\ call.origin = <<"http", "://", "localhost", "@", "evil.com">>
    /\ call.envOrigin = <<"http", "://", "localhost", "@", "evil.com">>
    /\ call.out = DefaultOrigin

\* SpecChain: clients with and without credentials send safe and unsafe
\* requests carrying an Idempotency-Key to the kill route, with
\* FLOWFORGE_API_KEY either set or unset.
ArriveChain ==
    /\ issued < MaxChainRequests
    /\ \E i \in Conns, method \in {"POST", "DELETE", "GET"}, token \in Tokens :
          Arrive(i, "kill", method, token, 1, "k1", "b1", FALSE)

NextChain ==
    \/ ArriveChain
    \/ StepsToDecision
    \/ \E i \in Conns : FinishMutation(i)
    \/ \E ok \in BOOLEAN : SupervisorStopReturns(ok)
    \/ ChildExited

SpecChain == InitAuth /\ [][NextChain]_vars

\* a request that holds a valid token: the configured key, presented as bearer
HoldsValidToken(r) == apiKey # "" /\ r.token = "valid"

\* the outcomes of a request that got as far as idempotency handling
IdempotencyOutcomes == {"replay", "conflict", "executed", "audit_failed"}

\* C29: a request is checked by the rate limiter before authentication and by
\* authentication before idempotency handling, and a request rejected at one
\* stage reaches no later one: an unsafe request without a valid token reads
\* and writes no idempotency record and reaches no lifecycle action.
C29_StagesInOrder ==
    /\ \A i \in Conns :
          /\ req[i].pc = "handler" => req[i].admitted
          /\ req[i].authed => req[i].admitted
          /\ (PastAuth(i) \/ req[i].acted) => req[i].authed
          /\ (isUnsafeMethod(req[i].method) /\ ~HoldsValidToken(req[i])) =>
                ~PastAuth(i) /\ ~req[i].acted
    /\ (DOMAIN idemRecords # {} \/ idemSlots # {}) => apiKey # ""
    /\ LastDone =>
          /\ last.req.outcome = "limited" => ~last.req.admitted /\ ~last.req.authed
          /\ last.req.outcome = "auth" => last.req.admitted /\ ~last.req.authed /\ ~last.req.acted
          /\ last.req.outcome \in IdempotencyOutcomes => last.req.admitted /\ last.req.authed
          /\ last.req.acted => last.req.authed
          /\ (isUnsafeMethod(last.req.method) /\ ~HoldsValidToken(last.req)) =>
                /\ last.req.outcome \in {"limited", "auth", "method"}
                /\ ~last.req.acted

C29_Witness ==
    /\ apiKey # ""
    /\ LastDone
    /\ last.req.method = "POST"
    /\ last.req.token = "wrong"
    /\ last.req.key = "k1"
    /\ last.req.outcome = "auth"
    /\ last.req.admitted
    /\ IdemSlot(Scope("kill"), "k1") \in DOMAIN idemRecords

\* SpecLimiter: three clients call a limiter that may hold two entries.
InitLimiter ==
    /\ now = 0
    /\ limiter = BoundedLimiter
    /\ idemRecords = EmptyMap
    /\ idemSlots = {}
    /\ workerControl = [phase |-> "RUNNING", operation |-> "", pid |-> 1, nextPid |-> 2,
                        restarts |-> << >>, lastDone |-> "", stopStartedAt |-> 0]
    /\ currentState = UpdateState("", "RUNNING", "cmd", 1)
    /\ lifecycleOverride = ""
    /\ auditLog = << >>
    /\ req = [i \in Conns |-> IdleRequest]
    /\ last = [req |-> IdleRequest, resp |-> NoResponse]
    /\ issued = 0
    /\ hist = NoHist
    /\ apiKey = "secret"
    /\ supervisor = NewSupervisor(DefaultTree)
    /\ InitLedger
    /\ InitStateMem
    /\ call = NoLimiterCall

NextLimiter ==
    \/ \E ip \in LimiterClients : AllowReturns(ip)
    \/ \E ip \in LimiterClients : AddAuthFailureReturns(ip)
    \/ \E ip \in LimiterClients : ClearAuthFailuresReturns(ip)
    \/ LimiterTick

SpecLimiter == InitLimiter /\ [][NextLimiter]_vars

\* C30: when a call of allow, addAuthFailure or clearAuthFailures returns, the
\* limiter's map holds at most maxEntries entries.
C30_EntriesWithinMax ==
    Cardinality(DOMAIN limiter.entries) <= limiter.maxEntries

C30_Witness ==
    /\ call.done
    /\ call.seen = LimiterClients
    /\ Cardinality(DOMAIN limiter.entries) = limiter.maxEntries
    /\ \A ip \in DOMAIN limiter.entries : now < limiter.entries[ip].blockedUntil
    /\ call.ip \notin DOMAIN limiter.entries

\* C31: when allow(ip) returns, the entry for ip is in the limiter's map: the
\* prune of that call has not evicted the caller's own fresh entry.
C31_CallerEntryKept ==
    (call.op = "allow" /\ call.done) => call.ip \in DOMAIN limiter.entries

\* C32: a request from a client that was told it is blocked is rejected until
\* blockDuration has passed since the failure that blocked it, whatever the
\* limiter has done in between (calls of other clients, prunes, evictions).
C32_BlockHolds ==
    (call.op = "allow" /\ call.done /\ now < call.blocks[call.ip]) => ~call.out

C32_Witness ==
    /\ call.op = "allow"
    /\ call.done
    /\ call.seen = LimiterClients
    /\ now > 0
    /\ now < call.blocks[call.ip]
    /\ ~call.out
    /\ Cardinality(DOMAIN limiter.entries) = limiter.maxEntries

\* C33: the failure that makes authFailLimit failed attempts of a client since
\* its last successful one blocks the client, however the attempts are spread
\* over time and over the one-minute request windows.
C33_FailuresAlwaysBlock ==
    (call.op = "addAuthFailure" /\ call.done
        /\ call.fails[call.ip] >= limiter.authFailLimit) => call.out

\* C34 as stated: within one of its one-minute windows a client is allowed at
\* most requestLimit requests; every further one is rejected.
C34_Original ==
    \A ip \in LimiterClients : call.window[ip].granted <= limiter.requestLimit

\* C34: within one of its one-minute windows a client whose entry the limiter
\* has kept is allowed at most requestLimit requests, and every further one is
\* rejected; the count starts again when the entry was dropped from the map.
C34_AtMostLimitWhileEntryKept ==
    \A ip \in LimiterClients :
        call.window[ip].granted > limiter.requestLimit => call.dropped[ip]

C34_Witness ==
    /\ call.op = "allow"
    /\ call.done
    /\ ~call.out
    /\ now >= call.blocks[call.ip]
    /\ ~call.dropped[call.ip]
    /\ call.window[call.ip].granted = limiter.requestLimit
    /\ call.seen = LimiterClients

\* SpecPrune: one prune of a limiter holding any map of entries, under a cap
\* of one or two entries, with and without entries old enough to be stale.
InitPrune ==
    /\ now = PruneTime
    /\ limiter = BoundedLimiter
    /\ idemRecords = EmptyMap
    /\ idemSlots = {}
    /\ workerControl = [phase |-> "RUNNING", operation |-> "", pid |-> 1, nextPid |-> 2,
                        restarts |-> << >>, lastDone |-> "", stopStartedAt |-> 0]
    /\ currentState = UpdateState("", "RUNNING", "cmd", 1)
    /\ lifecycleOverride = ""
    /\ auditLog = << >>
    /\ req = [i \in Conns |-> IdleRequest]
    /\ last = [req |-> IdleRequest, resp |-> NoResponse]
    /\ issued = 0
    /\ hist = NoHist
    /\ apiKey = "secret"
    /\ supervisor = NewSupervisor(DefaultTree)
    /\ InitLedger
    /\ InitStateMem
    /\ \E entries \in LimiterMaps, maxEntries \in {1, 2}, staleTTL \in {3, 12 * Minute} :
          LET lim == [newRateLimiterWithBounds(120, 10, 10 * Minute, maxEntries, staleTTL, 1)
                         EXCEPT !.entries = entries]
          IN  call = [op |-> "pruneLocked", done |-> FALSE, lim |-> lim,
                      t |-> PruneTime, out |-> lim]

NextPrune == PruneReturns

SpecPrune == InitPrune /\ [][NextPrune]_vars

\* the entries of the pruned map that are blocked at the time of the prune
BlockedAtPrune(ip) == call.t < call.lim.entries[ip].blockedUntil

Evicted == DOMAIN call.lim.entries \ DOMAIN call.out.entries

\* C35: a prune of a map over maxEntries brings it down to maxEntries; among
\* the non-blocked entries it evicts the least recently seen, and it evicts a
\* blocked entry only when it has evicted every non-blocked one.
C35_NonBlockedEvictedFirst ==
    (call.op = "pruneLocked" /\ call.done) =>
        /\ Cardinality(DOMAIN call.out.entries) <= call.lim.maxEntries
        /\ \A ip \in DOMAIN call.out.entries : call.out.entries[ip] = call.lim.entries[ip]
        /\ \A b \in Evicted :
              BlockedAtPrune(b) =>
                  \A u \in DOMAIN call.lim.entries : ~BlockedAtPrune(u) => u \in Evicted
        /\ \A u \in Evicted, v \in DOMAIN call.out.entries :
              (~BlockedAtPrune(u) /\ ~BlockedAtPrune(v)) =>
                  call.lim.entries[u].lastSeen <= call.lim.entries[v].lastSeen
        /\ \A b \in Evicted, v \in DOMAIN call.out.entries :
              (BlockedAtPrune(b) /\ BlockedAtPrune(v)) =>
                  call.lim.entries[b].lastSeen <= call.lim.entries[v].lastSeen

C35_Witness ==
    /\ call.op = "pruneLocked"
    /\ call.done
    /\ call.lim.maxEntries = 1
    /\ DOMAIN call.lim.entries = LimiterClients
    /\ \E b \in Evicted : BlockedAtPrune(b)
    /\ \E u \in Evicted : ~BlockedAtPrune(u)
    /\ \E v \in DOMAIN call.out.entries : BlockedAtPrune(v)

\* SpecRace: two baseline requests evaluate bucket A side by side while the
\* monitor records decisions in it.
InitRace ==
    /\ InitControlPlane
    /\ apiKey = "secret"
    /\ supervisor = NewSupervisor(DefaultTree)
    /\ events = << >>
    /\ baselineState = [key \in BucketKeys |-> NoRow]
    /\ \E m \in MinSamplesChoices, r \in RequiredStreakChoices :
          guardrails = [MinBaselineSamples |-> m, RequiredStreak |-> r]
    /\ demo = NoDemo
    /\ report = NoReport
    /\ observed = [key \in BucketKeys |-> << >>]
    /\ call = NoEvaluations
    /\ InitStateMem

NextRace ==
    \/ \E cpu \in Scores : LogDecisionTrace("A", cpu)
    \/ \E e \in Evaluators : EvalLoad(e)
    \/ \E e \in Evaluators : EvalRead(e, "A")
    \/ \E e \in Evaluators : EvalWrite(e, "A")

SpecRace == InitRace /\ [][NextRace]_vars

\* the audit events of bucket A's transitions, oldest first
TransitionTitles ==
    LET audits == SelectSeq(events, LAMBDA ev : ev.kind = "audit" /\ ev.bucket = "A")
    IN  [i \in DOMAIN audits |-> audits[i].title]

\* C36: evaluations of a bucket that run side by side leave what a run of one
\* after the other leaves: the streak has grown by at most one for each trace
\* that became the latest, and each transition into or out of at_risk has one
\* audit event, so that at-risk and recovered events alternate.
C36_ConcurrentEqualsSerial ==
    /\ baselineState["A"].ConsecutiveBreach
          <= Cardinality({k \in DOMAIN events : events[k].kind = "decision"})
    /\ \A i \in DOMAIN TransitionTitles :
          TransitionTitles[i] = IF i % 2 = 1 THEN "SIGNAL_BASELINE_AT_RISK"
                                ELSE "SIGNAL_BASELINE_RECOVERED"

\* the persisted states of the buckets that have one
PersistedStates == {baselineState[key] : key \in {k \in BucketKeys : baselineState[k] # NoRow}}

\* C37: with fixed guardrails every persisted bucket state is consistent:
\* at_risk has a streak of at least the required one, pending a streak of at
\* least one and below the required one, healthy and insufficient_history a
\* streak of zero.
C37_PersistedStateConsistent ==
    \A st \in PersistedStates :
        /\ st.Status \in {signalBaselineStatusAtRisk, signalBaselineStatusPending,
                          signalBaselineStatusHealthy, signalBaselineStatusInsufficientHistory}
        /\ st.Status = signalBaselineStatusAtRisk =>
              st.ConsecutiveBreach >= guardrails.RequiredStreak
        /\ st.Status = signalBaselineStatusPending =>
              1 <= st.ConsecutiveBreach /\ st.ConsecutiveBreach < guardrails.RequiredStreak
        /\ st.Status \in {signalBaselineStatusHealthy, signalBaselineStatusInsufficientHistory} =>
              st.ConsecutiveBreach = 0

C37_Witness ==
    /\ report.op = "evaluate"
    /\ guardrails.RequiredStreak = 2
    /\ \E st \in PersistedStates :
          st.Status = signalBaselineStatusAtRisk /\ st.ConsecutiveBreach = 2

----------------------------------------------------------------------------
(* Audit trail of kill and restart requests (SpecLedgerFault) *)

\* the KILL and RESTART audit events in log that carry request id rid
TransitionAudits(log, rid) ==
    SelectSeq(log, LAMBDA e : e.rid = rid /\ e.action \in {"KILL", "RESTART"})

\* C38 as stated: when a kill or restart request is answered, the ledger holds
\* exactly one KILL or RESTART event with its request id if the lifecycle
\* manager newly accepted it (accepted_new), and none if it was answered
\* REPLAYED, IN_PROGRESS, by idempotent replay or in any other way.
C38_OneAuditPerAcceptedRequest ==
    [][\A i \in Conns :
          (InFlight(i) /\ req'[i].pc = "idle") =>
              Len(TransitionAudits(auditLog', req[i].rid)) =
                  IF req[i].pc = "finish" /\ req[i].decision.acceptedNew THEN 1 ELSE 0]_vars

----------------------------------------------------------------------------
(* The process-wide ProcessState and its writers (internal/state/state.go) *)

MaxStateCalls == 4

\* var currentState ProcessState; var lifecycleOverride string
ZeroProcessState == [Status |-> "", Command |-> "", PID |-> 0, Lifecycle |-> ""]

\* a string of at most one word, after TrimSpace
Word(str) == IF str = << >> THEN "" ELSE str[1]

\* the statuses, pids and spellings of a lifecycle the writers are called with
StateStatuses == {"", "RUNNING", "WATCHDOG_ALERT", "LOOP_DETECTED", "FAILED"}
StatePIDs == {0, 1}
RawLifecycles ==
    {<< >>, <<"starting">>, <<Space, "STOPPING">>, <<"failed", Space>>,
     <<"RUNNING">>, <<"stopped">>, <<"paused">>}

\* the last call of a writer: its name, what it was given, the lifecycle and
\* the override it found, the decision diagnostics of the current state and
\* the number of calls so far
NoStateCall ==
    [op |-> "", done |-> FALSE, n |-> 0, status |-> "", pid |-> 0,
     before |-> "", held |-> "", Reason |-> ""]

stateUnchanged ==
    <<now, apiKey, limiter, idemRecords, idemSlots, workerControl, auditLog, req, last,
      issued, hist, supervisor, ledger, stateMem>>

\* the monitor calls state.UpdateState(cpu, lastLine, status, command, args, dir, pid)
CallUpdateState(status, pid) ==
    /\ call.n < MaxStateCalls
    /\ currentState' = UpdateState(lifecycleOverride, status, "cmd", pid)
    /\ call' = [call EXCEPT !.op = "UpdateState", !.n = @ + 1, !.status = status, !.pid = pid,
                            !.before = currentState.Lifecycle, !.held = lifecycleOverride,
                            !.Reason = ""]
    /\ UNCHANGED <<lifecycleOverride, stateUnchanged>>

\* state.UpdateDecision(reason, cpuScore, entropy, confidence)
CallUpdateDecision(reason) ==
    /\ call.n < MaxStateCalls
    /\ call' = [call EXCEPT !.op = "UpdateDecision", !.n = @ + 1, !.status = "", !.pid = 0,
                            !.before = currentState.Lifecycle, !.held = lifecycleOverride,
                            !.Reason = reason]
    /\ UNCHANGED <<currentState, lifecycleOverride, stateUnchanged>>

\* state.UpdateLifecycle(lifecycle, status, pid)
CallUpdateLifecycle(raw, status, pid) ==
    /\ call.n < MaxStateCalls
    /\ LET u == UpdateLifecycle(currentState, lifecycleOverride,
                                Word(ToUpper(TrimSpace(raw))), status, pid)
       IN  /\ currentState' = u.state
           /\ lifecycleOverride' = u.override
    /\ call' = [call EXCEPT !.op = "UpdateLifecycle", !.n = @ + 1, !.status = status, !.pid = pid,
                            !.before = currentState.Lifecycle, !.held = lifecycleOverride]
    /\ UNCHANGED stateUnchanged

\* SpecState: the writers of the ProcessState are called in any order, from
\* the zero value the package starts with.
InitState ==
    /\ now = 0
    /\ apiKey = "secret"
    /\ limiter = newRateLimiter(120, 10, 10 * Minute)
    /\ idemRecords = EmptyMap
    /\ idemSlots = {}
    /\ workerControl = [phase |-> "STOPPED", operation |-> "", pid |-> 0, nextPid |-> 1,
                        restarts |-> << >>, lastDone |-> "", stopStartedAt |-> 0]
    /\ currentState = ZeroProcessState
    /\ lifecycleOverride = ""
    /\ auditLog = << >>
    /\ req = [i \in Conns |-> IdleRequest]
    /\ last = [req |-> IdleRequest, resp |-> NoResponse]
    /\ issued = 0
    /\ hist = NoHist
    /\ supervisor = NewSupervisor(DefaultTree)
    /\ InitLedger
    /\ InitStateMem
    /\ call = NoStateCall

NextState ==
    \/ \E status \in StateStatuses, pid \in StatePIDs : CallUpdateState(status, pid)
    \/ \E reason \in {"cpu", "entropy"} : CallUpdateDecision(reason)
    \/ \E raw \in RawLifecycles, status \in StateStatuses, pid \in {0 - 1, 0, 1} :
          CallUpdateLifecycle(raw, status, pid)

SpecState == InitState /\ [][NextState]_vars

Lifecycles == {"STARTING", "RUNNING", "STOPPING", "STOPPED", "FAILED"}

\* C39 as stated: after any sequence of UpdateState, UpdateDecision and
\* UpdateLifecycle calls the lifecycle of the current ProcessState is one of
\* STARTING, RUNNING, STOPPING, STOPPED, FAILED.
C39_LifecycleInDomain ==
    call.n > 0 => currentState.Lifecycle \in Lifecycles

\* C40: while a STARTING, STOPPING or FAILED set through UpdateLifecycle is in
\* effect, no call but UpdateLifecycle changes the reported lifecycle: an
\* UpdateState of the monitor leaves it as it was, whatever status and pid
\* it publishes.
C40_OverrideOutlivesUpdateState ==
    [][(lifecycleOverride \in {"STARTING", "STOPPING", "FAILED"}
          /\ currentState.Lifecycle = lifecycleOverride)
          => \/ currentState'.Lifecycle = currentState.Lifecycle
             \/ call'.op = "UpdateLifecycle"]_vars

C40_Witness ==
    /\ call.op = "UpdateState"
    /\ call.held \in {"STARTING", "STOPPING", "FAILED"}
    /\ call.before = call.held
    /\ currentState.Lifecycle = call.held
    /\ deriveLifecycle(call.status, call.pid) # call.held
    /\ currentState.Status = call.status
====
